---- MODULE Spec2Model ----
(***************************************************************************)
(* Model of the music server's MusicEngine (src/music_server.py): the      *)
(* playback / queue / playlist state machine, its persistence of playlist  *)
(* mutations to the sqlite store, and the monitor thread that advances     *)
(* playback at end-of-track.                                               *)
(*                                                                         *)
(* A song is identified by its file location (a number 1..NumSongs); the   *)
(* music table holds one record per song.  Every handler of the engine is  *)
(* an operator from the state before the call to the state after it and    *)
(* the value it returns (or the exception it raises).                      *)
(***************************************************************************)
EXTENDS Integers, Sequences, FiniteSets, TLC

VARIABLES
    eng,      \* the MusicEngine object: its fields, the vlc player included
    db,       \* the sqlite store: tables playlists and playlist_songs
    ret,      \* the last event: the engine call and what it returned
    pc,       \* per thread: the statement it is at
    loc,      \* per thread: its local variables
    ghost     \* history of the current end-of-track event

vars == <<eng, db, ret, pc, loc, ghost>>

----------------------------------------------------------------------------
(* Bounds of the model *)

NumSongs == 2        \* songs in the music table
MaxQueue == 1        \* add_to_queue is not called on a longer queue
MaxHistory == 2      \* no song is started once history holds this many
MaxLen == 2          \* add_to_playlist is not called on a longer playlist
MaxPlaylistId == 1   \* create_playlist is not called once this id is used
MaxIndex == 3        \* next() is not called to push playlist_index beyond this
MaxMove == 3         \* length of the playlist that is reordered
MaxOver == 12        \* how far outside 0..100 a requested volume level lies
MaxQueued == 3       \* length of the queue an entry is removed from
MaxCopies == 2       \* playlists that exist besides Library and P
MaxPathLen == 2      \* components of a file location handed to add_music_entry
MaxMusicId == 2      \* rows ever inserted into the music table

(* Program constants *)

HISTORY_MAXLEN == 50
DEFAULT_VOLUME == 75
MAX_VOLUME == 100               \* set_volume: max(0, min(100, level))
VOLUME_STEP == 10               \* the volume/up and volume/down routes

Songs == 1..NumSongs
None == 0                       \* Python None where a song is expected
NoName == "<None>"              \* Python None where a playlist name is expected
Library == "Library"
UserNames == {"P", "Q"}         \* playlist names a request may carry
Names == UserNames \cup {Library}
RepeatModes == {"off", "one", "all"}

----------------------------------------------------------------------------
(* Sequence helpers: list.pop(i), list.insert(i, x), random.shuffle *)

RemoveAt(s, i) == SubSeq(s, 1, i - 1) \o SubSeq(s, i + 1, Len(s))

InsertAt(s, i, x) == SubSeq(s, 1, i - 1) \o <<x>> \o SubSeq(s, i, Len(s))

Range(s) == {s[i] : i \in DOMAIN s}

Injections(n) == {f \in [1..n -> 1..n] : \A i, j \in 1..n : f[i] = f[j] => i = j}

Shuffles(s) == {[i \in 1..Len(s) |-> s[f[i]]] : f \in Injections(Len(s))}

\* deque(maxlen=n).append(x): the oldest entry is evicted when full
DequeAppend(d, x, n) == IF Len(d) >= n THEN Tail(d) \o <<x>> ELSE d \o <<x>>

----------------------------------------------------------------------------
(* The engine after construction *)

Player0 == [state |-> "NothingSpecial", volume |-> 100]

Engine0(pls) ==
    [ current_song          |-> None,
      queue                 |-> << >>,
      playlists             |-> pls,
      current_playlist      |-> << >>,
      current_playlist_name |-> NoName,
      playlist_index        |-> 0,
      history               |-> << >>,
      is_playing            |-> FALSE,
      volume                |-> DEFAULT_VOLUME,
      is_muted              |-> FALSE,
      shuffle               |-> FALSE,
      repeat                |-> "off",
      running               |-> TRUE,
      player                |-> Player0 ]

\* the record of a call: `at` is playlist_index when the call was made
Ret(op, at, status, branch) ==
    [op |-> op, at |-> at, status |-> status, branch |-> branch]

Ret0 == Ret("init", 0, "ok", "")

\* a handler's outcome: the engine after it and what it returned
Out(e, status, branch) == [eng |-> e, status |-> status, branch |-> branch]

----------------------------------------------------------------------------
(* Playback handlers.  `fs` is the set of file locations that exist on    *)
(* disk when the handler runs (os.path.exists); files come and go between *)
(* calls, so every call draws it anew.                                     *)

\* list[i] with a 0-based index raises IndexError outside the list
OutOfRange(list, i) == i < 0 - Len(list) \/ i >= Len(list)

At(list, i) == list[i + 1]

\* play_file: a missing file returns an error before anything is touched;
\* otherwise the device is restarted on the file, the song becomes current,
\* is_playing is set and the song is appended to the history
play_file(e, fs, file_path) ==
    IF file_path \notin fs
    THEN Out(e, "error_file_not_found", "")
    ELSE Out([e EXCEPT
                !.player = [state  |-> "Playing",
                            volume |-> IF e.is_muted THEN @.volume ELSE e.volume],
                !.current_song = file_path,
                !.is_playing = TRUE,
                !.history = DequeAppend(@, file_path, HISTORY_MAXLEN)],
             "playing", "")

Branch(out, b) == [out EXCEPT !.branch = b]

\* stop: the device is stopped, the current song and the bound NAME are
\* cleared; current_playlist and playlist_index are not assigned
stop(e) ==
    Out([e EXCEPT !.player.state = "Stopped",
                  !.is_playing = FALSE,
                  !.current_song = None,
                  !.current_playlist_name = NoName],
        "stopped", "")

\* a pause that does not look at is_playing
pause_unguarded(e) ==
    Out([e EXCEPT !.player.state =
                      IF @ = "Playing" THEN "Paused"
                      ELSE IF @ = "Paused" THEN "Playing" ELSE @,
                  !.is_playing = FALSE],
        "paused", "")

\* pause: player.pause() toggles the device between playing and paused
pause(e) ==
    IF e.is_playing
    THEN Out([e EXCEPT !.player.state =
                           IF @ = "Playing" THEN "Paused"
                           ELSE IF @ = "Paused" THEN "Playing" ELSE @,
                       !.is_playing = FALSE],
             "paused", "")
    ELSE Out(e, "already_paused", "")

\* a resume that does not look at current_song
resume_without_song(e) ==
    IF ~e.is_playing
    THEN Out([e EXCEPT !.player.state = IF @ = "NothingSpecial" THEN @ ELSE "Playing",
                       !.is_playing = TRUE],
             "resumed", "")
    ELSE Out(e, "nothing_to_resume", "")

resume(e) ==
    IF ~e.is_playing /\ e.current_song # None
    THEN Out([e EXCEPT !.player.state = IF @ = "NothingSpecial" THEN @ ELSE "Playing",
                       !.is_playing = TRUE],
             "resumed", "")
    ELSE Out(e, "nothing_to_resume", "")

\* next() that looks at the bound list before the queue
next_playlist_first(e, fs) ==
    IF e.current_playlist # << >>
    THEN LET e1 == [e EXCEPT !.playlist_index = @ + 1]
         IN  IF e1.playlist_index >= Len(e1.current_playlist)
             THEN IF e1.repeat = "all"
                  THEN LET e2 == [e1 EXCEPT !.playlist_index = 0]
                       IN  Branch(play_file(e2, fs, At(e2.current_playlist, 0)), "wrap")
                  ELSE Out(e1, "end_of_playlist", "end")
             ELSE Branch(play_file(e1, fs, At(e1.current_playlist, e1.playlist_index)),
                         "playlist")
    ELSE IF e.queue # << >>
    THEN Branch(play_file([e EXCEPT !.queue = Tail(@)], fs, Head(e.queue)), "queue")
    ELSE Out(e, "no_next_song", "none")

\* next() that wraps to the last entry instead of entry 0
next_wrap_to_last(e, fs) ==
    IF e.queue # << >>
    THEN Branch(play_file([e EXCEPT !.queue = Tail(@)], fs, Head(e.queue)), "queue")
    ELSE IF e.current_playlist # << >>
    THEN LET e1 == [e EXCEPT !.playlist_index = @ + 1]
         IN  IF e1.playlist_index >= Len(e1.current_playlist)
             THEN IF e1.repeat = "all"
                  THEN LET e2 == [e1 EXCEPT !.playlist_index = Len(e1.current_playlist) - 1]
                       IN  Branch(play_file(e2, fs,
                                            At(e2.current_playlist, e2.playlist_index)),
                                  "wrap")
                  ELSE Out(e1, "end_of_playlist", "end")
             ELSE Branch(play_file(e1, fs, At(e1.current_playlist, e1.playlist_index)),
                         "playlist")
    ELSE Out(e, "no_next_song", "none")

\* next: queue first, then the bound list, then nothing
next(e, fs) ==
    IF e.queue # << >>
    THEN Branch(play_file([e EXCEPT !.queue = Tail(@)], fs, Head(e.queue)), "queue")
    ELSE IF e.current_playlist # << >>
    THEN LET e1 == [e EXCEPT !.playlist_index = @ + 1]
         IN  IF e1.playlist_index >= Len(e1.current_playlist)
             THEN IF e1.repeat = "all"
                  THEN LET e2 == [e1 EXCEPT !.playlist_index = 0]
                       IN  Branch(play_file(e2, fs, At(e2.current_playlist, 0)), "wrap")
                  ELSE Out(e1, "end_of_playlist", "end")
             ELSE Branch(play_file(e1, fs, At(e1.current_playlist, e1.playlist_index)),
                         "playlist")
    ELSE Out(e, "no_next_song", "none")

\* seek: player.set_time; the model keeps no playback position
seek(e, position) ==
    IF e.current_song # None
    THEN Out(e, "position", "")
    ELSE Out(e, "error_no_song_playing", "")

\* previous: bound list with index > 0, then history, then restart
previous(e, fs) ==
    IF e.current_playlist # << >> /\ e.playlist_index > 0
    THEN LET e1 == [e EXCEPT !.playlist_index = @ - 1]
         IN  IF OutOfRange(e1.current_playlist, e1.playlist_index)
             THEN Out(e1, "raise_IndexError", "playlist")
             ELSE Branch(play_file(e1, fs, At(e1.current_playlist, e1.playlist_index)),
                         "playlist")
    ELSE IF Len(e.history) >= 2
    THEN LET e1 == [e EXCEPT !.history = SubSeq(@, 1, Len(@) - 1)]
         IN  Branch(play_file(e1, fs, e1.history[Len(e1.history)]), "history")
    ELSE IF e.current_song # None
    THEN Out(seek(e, 0).eng, "restarted", "restart")
    ELSE Out(e, "no_previous_song", "none")

\* an end-of-track handler that looks at the queue before the repeat mode
handle_song_end_queue_first(e, fs) ==
    IF e.queue # << >>
    THEN Branch(play_file([e EXCEPT !.queue = Tail(@)], fs, Head(e.queue)), "queue")
    ELSE IF e.repeat = "one"
    THEN IF e.current_song = None
         THEN Out(e, "raise_TypeError", "one")
         ELSE Branch(play_file(e, fs, e.current_song), "one")
    ELSE IF e.current_playlist # << >>
    THEN LET e1 == [e EXCEPT !.playlist_index = @ + 1]
         IN  IF e1.playlist_index >= Len(e1.current_playlist)
             THEN IF e1.repeat = "all"
                  THEN LET e2 == [e1 EXCEPT !.playlist_index = 0]
                       IN  Branch(play_file(e2, fs, At(e2.current_playlist, 0)), "wrap")
                  ELSE Branch(stop(e1), "end")
             ELSE Branch(play_file(e1, fs, At(e1.current_playlist, e1.playlist_index)),
                         "playlist")
    ELSE Branch(stop(e), "none")

\* _handle_song_end: repeat=one replays, else queue, bound list, stop
handle_song_end(e, fs) ==
    IF e.repeat = "one"
    THEN IF e.current_song = None
         THEN Out(e, "raise_TypeError", "one")
         ELSE Branch(play_file(e, fs, e.current_song), "one")
    ELSE IF e.queue # << >>
    THEN Branch(play_file([e EXCEPT !.queue = Tail(@)], fs, Head(e.queue)), "queue")
    ELSE IF e.current_playlist # << >>
    THEN LET e1 == [e EXCEPT !.playlist_index = @ + 1]
         IN  IF e1.playlist_index >= Len(e1.current_playlist)
             THEN IF e1.repeat = "all"
                  THEN LET e2 == [e1 EXCEPT !.playlist_index = 0]
                       IN  Branch(play_file(e2, fs, At(e2.current_playlist, 0)), "wrap")
                  ELSE Branch(stop(e1), "end")
             ELSE Branch(play_file(e1, fs, At(e1.current_playlist, e1.playlist_index)),
                         "playlist")
    ELSE Branch(stop(e), "none")

\* _search_song: the first row of the music table matching the query.  A
\* query is the name of a song of the table, or None for one matching nothing
search_song(query) == IF query \in Songs THEN query ELSE None

add_to_queue(e, song_name) ==
    LET song_data == search_song(song_name)
    IN  IF song_data # None
        THEN Out([e EXCEPT !.queue = Append(@, song_data)], "added_to_queue", "")
        ELSE Out(e, "error_song_not_found", "")

clear_queue(e) == Out([e EXCEPT !.queue = << >>], "queue_cleared", "")

\* a removal that pops the newest entry whatever the index
remove_from_queue_right(e, index) ==
    IF 0 <= index /\ index < Len(e.queue)
    THEN Out([e EXCEPT !.queue = SubSeq(@, 1, Len(@) - 1)], "removed_from_queue", "")
    ELSE Out(e, "error_invalid_queue_index", "")

remove_from_queue(e, index) ==
    IF 0 <= index /\ index < Len(e.queue)
    THEN Out([e EXCEPT !.queue = RemoveAt(@, index + 1)], "removed_from_queue", "")
    ELSE Out(e, "error_invalid_queue_index", "")

set_repeat(e, mode) ==
    IF mode \in RepeatModes
    THEN Out([e EXCEPT !.repeat = mode], "repeat", "")
    ELSE Out(e, "error_invalid_repeat_mode", "")

\* a play_playlist that binds the list before it looks whether it is empty
play_playlist_bind_first(e, fs, name, perm) ==
    IF name \notin DOMAIN e.playlists
    THEN Out(e, "error_not_found", "")
    ELSE LET e1 == [e EXCEPT !.current_playlist =
                                 IF e.shuffle THEN perm ELSE e.playlists[name],
                             !.current_playlist_name = name,
                             !.playlist_index = 0]
         IN  IF e.playlists[name] = << >>
             THEN Out(e1, "error_empty", "")
             ELSE Branch(play_file(e1, fs, At(e1.current_playlist, 0)), "bound")

Max(a, b) == IF a >= b THEN a ELSE b

Min(a, b) == IF a <= b THEN a ELSE b

\* list[:n] and list[n:] for n >= 0
Prefix(list, n) == SubSeq(list, 1, Min(n, Len(list)))

Suffix(list, n) == IF n >= Len(list) THEN << >> ELSE SubSeq(list, n + 1, Len(list))

\* a set_shuffle that turns the whole bound list around
set_shuffle_whole(e, enabled, perm) ==
    LET e1 == [e EXCEPT !.shuffle = enabled]
        all == Prefix(e.current_playlist, e.playlist_index + 1) \o perm
    IN  IF enabled /\ e.current_playlist # << >>
        THEN Out([e1 EXCEPT !.current_playlist =
                               [i \in DOMAIN all |-> all[Len(all) + 1 - i]]],
                 "shuffle", "")
        ELSE Out(e1, "shuffle", "")

\* set_shuffle: when enabling with a bound list, the entries behind
\* playlist_index are shuffled (`perm` is what random.shuffle makes of them)
set_shuffle(e, enabled, perm) ==
    LET e1 == [e EXCEPT !.shuffle = enabled]
    IN  IF enabled /\ e.current_playlist # << >>
        THEN Out([e1 EXCEPT !.current_playlist =
                               Prefix(@, e.playlist_index + 1) \o perm],
                 "shuffle", "")
        ELSE Out(e1, "shuffle", "")

\* a set_volume that clamps at the top only
set_volume_no_floor(e, level) ==
    LET e1 == [e EXCEPT !.volume = Min(MAX_VOLUME, level)]
    IN  Out(IF e1.is_muted THEN e1 ELSE [e1 EXCEPT !.player.volume = e1.volume],
            "volume", "")

\* set_volume: the level is clamped into 0..100 and stored; the device
\* follows unless muted
set_volume(e, level) ==
    LET e1 == [e EXCEPT !.volume = Max(0, Min(MAX_VOLUME, level))]
    IN  Out(IF e1.is_muted THEN e1 ELSE [e1 EXCEPT !.player.volume = e1.volume],
            "volume", "")

\* a toggle_mute that unmutes to the volume the engine started with
toggle_mute_default(e) ==
    IF e.is_muted
    THEN Out([e EXCEPT !.is_muted = FALSE, !.player.volume = DEFAULT_VOLUME],
             "muted", "")
    ELSE Out([e EXCEPT !.is_muted = TRUE, !.player.volume = 0], "muted", "")

\* toggle_mute: the device goes to 0 or back to the stored volume; the
\* stored volume is not assigned
toggle_mute(e) ==
    IF e.is_muted
    THEN Out([e EXCEPT !.is_muted = FALSE, !.player.volume = e.volume], "muted", "")
    ELSE Out([e EXCEPT !.is_muted = TRUE, !.player.volume = 0], "muted", "")

\* play_playlist: binds a copy of the stored list (shuffled by `perm` when
\* shuffle is on), resets the index and plays entry 0
play_playlist(e, fs, name, perm) ==
    IF name \notin DOMAIN e.playlists
    THEN Out(e, "error_not_found", "")
    ELSE IF e.playlists[name] = << >>
    THEN Out(e, "error_empty", "")
    ELSE LET e1 == [e EXCEPT !.current_playlist =
                                 IF e.shuffle THEN perm ELSE e.playlists[name],
                             !.current_playlist_name = name,
                             !.playlist_index = 0]
         IN  Branch(play_file(e1, fs, At(e1.current_playlist, 0)), "bound")

----------------------------------------------------------------------------
(* The sqlite store.  Table playlists is the sequence of its rows          *)
(* [id, name] in rowid order; seq is its sqlite_sequence entry, the largest *)
(* id ever used (AUTOINCREMENT never reuses one).  Every statement on       *)
(* playlist_songs names one playlist_id, so the table is kept per           *)
(* playlist_id: the sequence of its rows [song_data, position] in rowid     *)
(* order.  The connections are opened without PRAGMA foreign_keys, so       *)
(* deleting a playlists row leaves its playlist_songs rows in place.        *)
(* A handler's statements run in one transaction and commit at its end:     *)
(* when a statement fails (`fail`) nothing of the handler reaches the       *)
(* store.                                                                   *)

\* json.dumps / json.loads of a song snapshot
json_dumps(song) == [json |-> song]

json_loads(text) == text.json

\* the playlist_songs rows WHERE playlist_id = pid
rows_of(d, pid) ==
    IF pid \in DOMAIN d.playlist_songs THEN d.playlist_songs[pid] ELSE << >>

set_rows(d, pid, rows) ==
    [d EXCEPT !.playlist_songs =
        [p \in DOMAIN @ \cup {pid} |-> IF p = pid THEN rows ELSE @[p]]]

\* SELECT id FROM playlists WHERE name = ?   (fetchone: None when no row)
select_playlist_id(d, name) ==
    LET rows == SelectSeq(d.playlists, LAMBDA r : r.name = name)
    IN  IF rows = << >> THEN None ELSE rows[1].id

\* INSERT INTO playlists (name) VALUES (?)
insert_playlist(d, name) ==
    [d EXCEPT !.playlists = Append(@, [id |-> d.seq + 1, name |-> name]),
              !.seq = @ + 1]

\* INSERT INTO playlist_songs (playlist_id, song_data, position)
insert_song(d, pid, song, position) ==
    set_rows(d, pid, Append(rows_of(d, pid),
                            [song_data |-> json_dumps(song), position |-> position]))

RECURSIVE insert_songs(_, _, _, _)
\* for i, song in enumerate(songs): INSERT ... position i (from i = `first`)
insert_songs(d, pid, songs, first) ==
    IF songs = << >> THEN d
    ELSE insert_songs(insert_song(d, pid, Head(songs), first), pid, Tail(songs),
                      first + 1)

\* DELETE FROM playlists WHERE name = ?
delete_playlist_row(d, name) ==
    [d EXCEPT !.playlists = SelectSeq(@, LAMBDA r : r.name # name)]

\* a DELETE that matches the song instead of the position
delete_song_at_song(d, pid, position) ==
    LET rows == rows_of(d, pid)
        gone == {rows[i].song_data : i \in {j \in DOMAIN rows : rows[j].position = position}}
    IN  set_rows(d, pid, SelectSeq(rows, LAMBDA r : r.song_data \notin gone))

\* DELETE FROM playlist_songs WHERE playlist_id = ? AND position = ?
delete_song_at(d, pid, position) ==
    set_rows(d, pid, SelectSeq(rows_of(d, pid), LAMBDA r : r.position # position))

\* an UPDATE that renumbers nothing
shift_positions_none(d, pid, position) == d

\* UPDATE playlist_songs SET position = position - 1
\*   WHERE playlist_id = ? AND position > ?
shift_positions(d, pid, position) ==
    LET rows == rows_of(d, pid)
    IN  set_rows(d, pid,
            [i \in DOMAIN rows |->
                IF rows[i].position > position
                THEN [rows[i] EXCEPT !.position = @ - 1]
                ELSE rows[i]])

\* DELETE FROM playlist_songs WHERE playlist_id = ?
delete_songs_of(d, pid) == set_rows(d, pid, << >>)

\* UPDATE playlists SET name = ? WHERE name = ?
rename_playlist_row(d, new_name, old_name) ==
    [d EXCEPT !.playlists =
        [i \in DOMAIN @ |->
            IF @[i].name = old_name THEN [@[i] EXCEPT !.name = new_name] ELSE @[i]]]

\* the UNIQUE constraint on playlists.name
unique_violation(d, name) == \E i \in DOMAIN d.playlists : d.playlists[i].name = name

RECURSIVE SortByPosition(_)
\* ORDER BY position (rows of equal position in rowid order)
SortByPosition(rows) ==
    IF rows = << >> THEN << >>
    ELSE LET m == CHOOSE i \in DOMAIN rows :
                      \A j \in DOMAIN rows :
                          \/ rows[i].position < rows[j].position
                          \/ rows[i].position = rows[j].position /\ i <= j
         IN  <<rows[m]>> \o SortByPosition(RemoveAt(rows, m))

\* SELECT song_data FROM playlist_songs WHERE playlist_id = ? ORDER BY position
select_songs(d, pid) == SortByPosition(rows_of(d, pid))

\* _load_saved_playlists: the song list the engine loads for one playlist
load_playlist(d, pid) ==
    LET rows == select_songs(d, pid)
    IN  [i \in DOMAIN rows |-> json_loads(rows[i].song_data)]

Db0 == [playlists |-> << >>, playlist_songs |-> << >>, seq |-> 0]

\* a handler's outcome when it also writes the store
OutDb(e, d, status, branch) ==
    [eng |-> e, db |-> d, status |-> status, branch |-> branch]

----------------------------------------------------------------------------
(* Playlist management.  `fail` says that a storage statement of the call  *)
(* raises; the handler's except clause turns it into an error result.      *)

\* dict with one key less / one key more
DropKey(f, k) == [x \in DOMAIN f \ {k} |-> f[x]]

PutKey(f, k, v) == [x \in DOMAIN f \cup {k} |-> IF x = k THEN v ELSE f[x]]

\* a create_playlist that puts the name in the map before it writes the store
create_playlist_memory_first(e, d, name, songs, fail) ==
    IF name \in DOMAIN e.playlists
    THEN OutDb(e, d, "error_already_exists", "")
    ELSE LET e1 == [e EXCEPT !.playlists = PutKey(@, name, songs)]
         IN  IF fail \/ unique_violation(d, name)
             THEN OutDb(e1, d, "error_failed", "storage")
             ELSE LET d1 == insert_playlist(d, name)
                  IN  OutDb(e1, insert_songs(d1, d1.seq, songs, 0),
                            "playlist_created", "")

\* create_playlist: store first, memory after the commit
create_playlist(e, d, name, songs, fail) ==
    IF name \in DOMAIN e.playlists
    THEN OutDb(e, d, "error_already_exists", "")
    ELSE IF fail \/ unique_violation(d, name)
    THEN OutDb(e, d, "error_failed", "storage")
    ELSE LET d1 == insert_playlist(d, name)
             d2 == insert_songs(d1, d1.seq, songs, 0)
         IN  OutDb([e EXCEPT !.playlists = PutKey(@, name, songs)], d2,
                   "playlist_created", "")

\* a delete_playlist that leaves the binding alone
delete_playlist_keep_binding(e, d, name, fail) ==
    IF name = Library
    THEN OutDb(e, d, "error_protected", "")
    ELSE IF name \notin DOMAIN e.playlists
    THEN OutDb(e, d, "error_not_found", "")
    ELSE IF fail
    THEN OutDb(e, d, "error_failed", "storage")
    ELSE OutDb([e EXCEPT !.playlists = DropKey(@, name)],
               delete_playlist_row(d, name), "playlist_deleted", "")

\* delete_playlist: store first, then the map, then the binding
delete_playlist(e, d, name, fail) ==
    IF name = Library
    THEN OutDb(e, d, "error_protected", "")
    ELSE IF name \notin DOMAIN e.playlists
    THEN OutDb(e, d, "error_not_found", "")
    ELSE IF fail
    THEN OutDb(e, d, "error_failed", "storage")
    ELSE LET e1 == [e EXCEPT !.playlists = DropKey(@, name)]
             e2 == IF e1.current_playlist_name = name
                   THEN [e1 EXCEPT !.current_playlist = << >>,
                                   !.current_playlist_name = NoName,
                                   !.playlist_index = 0]
                   ELSE e1
         IN  OutDb(e2, delete_playlist_row(d, name), "playlist_deleted", "")

\* add_to_playlist: the row is inserted only when the store knows the name
\* (it does not know Library); memory and the bound copy are appended after
add_to_playlist(e, d, playlist_name, song_name, fail) ==
    IF playlist_name \notin DOMAIN e.playlists
    THEN OutDb(e, d, "error_not_found", "")
    ELSE LET song_data == search_song(song_name)
         IN  IF song_data = None
             THEN OutDb(e, d, "error_song_not_found", "")
             ELSE IF fail
             THEN OutDb(e, d, "error_failed", "storage")
             ELSE LET playlist_id == select_playlist_id(d, playlist_name)
                      position == Len(e.playlists[playlist_name])
                      d1 == IF playlist_id # None
                            THEN insert_song(d, playlist_id, song_data, position)
                            ELSE d
                      e1 == [e EXCEPT !.playlists[playlist_name] = Append(@, song_data)]
                      e2 == IF e1.current_playlist_name = playlist_name
                            THEN [e1 EXCEPT !.current_playlist = Append(@, song_data)]
                            ELSE e1
                  IN  OutDb(e2, d1, "song_added_to_playlist", "")

\* a removal that leaves playlist_index where it was
remove_from_playlist_keep_index(e, d, playlist_name, index, fail) ==
    IF playlist_name \notin DOMAIN e.playlists
    THEN OutDb(e, d, "error_not_found", "")
    ELSE IF playlist_name = Library
    THEN OutDb(e, d, "error_protected", "")
    ELSE IF ~(0 <= index /\ index < Len(e.playlists[playlist_name]))
    THEN OutDb(e, d, "error_invalid_index", "")
    ELSE IF fail
    THEN OutDb(e, d, "error_failed", "storage")
    ELSE LET playlist_id == select_playlist_id(d, playlist_name)
             d1 == IF playlist_id # None
                   THEN shift_positions(delete_song_at(d, playlist_id, index),
                                        playlist_id, index)
                   ELSE d
             e1 == [e EXCEPT !.playlists[playlist_name] = RemoveAt(@, index + 1)]
         IN  IF e1.current_playlist_name # playlist_name
             THEN OutDb(e1, d1, "song_removed_from_playlist", "")
             ELSE IF OutOfRange(e1.current_playlist, index)
             THEN OutDb(e1, d1, "error_failed", "IndexError")
             ELSE OutDb([e1 EXCEPT
                           !.current_playlist = RemoveAt(@, index + 1),
                           !.playlist_index = @],
                        d1, "song_removed_from_playlist", "bound")

\* remove_from_playlist: store first, then memory, then the bound copy;
\* current_playlist.pop(index) raises IndexError on a shorter bound copy,
\* after the store and the map were changed
remove_from_playlist(e, d, playlist_name, index, fail) ==
    IF playlist_name \notin DOMAIN e.playlists
    THEN OutDb(e, d, "error_not_found", "")
    ELSE IF playlist_name = Library
    THEN OutDb(e, d, "error_protected", "")
    ELSE IF ~(0 <= index /\ index < Len(e.playlists[playlist_name]))
    THEN OutDb(e, d, "error_invalid_index", "")
    ELSE IF fail
    THEN OutDb(e, d, "error_failed", "storage")
    ELSE LET playlist_id == select_playlist_id(d, playlist_name)
             d1 == IF playlist_id # None
                   THEN shift_positions(delete_song_at(d, playlist_id, index),
                                        playlist_id, index)
                   ELSE d
             e1 == [e EXCEPT !.playlists[playlist_name] = RemoveAt(@, index + 1)]
         IN  IF e1.current_playlist_name # playlist_name
             THEN OutDb(e1, d1, "song_removed_from_playlist", "")
             ELSE IF OutOfRange(e1.current_playlist, index)
             THEN OutDb(e1, d1, "error_failed", "IndexError")
             ELSE OutDb([e1 EXCEPT
                           !.current_playlist = RemoveAt(@, index + 1),
                           !.playlist_index = IF @ > index THEN @ - 1 ELSE @],
                        d1, "song_removed_from_playlist", "bound")

\* get_playlist_songs: the in-memory list of the playlist
get_playlist_songs(e, playlist_name) ==
    IF playlist_name \notin DOMAIN e.playlists
    THEN [status |-> "error_not_found", songs |-> << >>, count |-> 0]
    ELSE [status |-> "ok", songs |-> e.playlists[playlist_name],
          count |-> Len(e.playlists[playlist_name])]

\* a move that exchanges the two positions
MoveItem_swap(list, from_index, to_index) ==
    [i \in DOMAIN list |->
        IF i = from_index + 1 THEN list[to_index + 1]
        ELSE IF i = to_index + 1 THEN list[from_index + 1]
        ELSE list[i]]

\* list.pop(from_index) then list.insert(to_index, song)
MoveItem(list, from_index, to_index) ==
    InsertAt(RemoveAt(list, from_index + 1), to_index + 1, list[from_index + 1])

\* a reorder_playlist that checks the indices before the reserved name
reorder_playlist_index_first(e, d, playlist_name, from_index, to_index, fail) ==
    IF playlist_name \notin DOMAIN e.playlists
    THEN OutDb(e, d, "error_not_found", "")
    ELSE IF ~(/\ 0 <= from_index /\ from_index < Len(e.playlists[playlist_name])
              /\ 0 <= to_index /\ to_index < Len(e.playlists[playlist_name]))
    THEN OutDb(e, d, "error_invalid_indices", "")
    ELSE IF playlist_name = Library
    THEN OutDb(e, d, "error_protected", "")
    ELSE LET e1 == [e EXCEPT !.playlists[playlist_name] =
                                 MoveItem(@, from_index, to_index)]
         IN  IF fail
             THEN OutDb(e1, d, "error_failed", "storage")
             ELSE LET playlist_id == select_playlist_id(d, playlist_name)
                      d1 == IF playlist_id # None
                            THEN insert_songs(delete_songs_of(d, playlist_id),
                                              playlist_id,
                                              e1.playlists[playlist_name], 0)
                            ELSE d
                  IN  IF e1.current_playlist_name # playlist_name
                      THEN OutDb(e1, d1, "playlist_reordered", "")
                      ELSE IF OutOfRange(e1.current_playlist, from_index)
                      THEN OutDb(e1, d1, "error_failed", "IndexError")
                      ELSE OutDb([e1 EXCEPT
                              !.current_playlist = MoveItem(@, from_index, to_index),
                              !.playlist_index =
                                  IF @ = from_index THEN to_index
                                  ELSE IF from_index < @ /\ @ <= to_index THEN @ - 1
                                  ELSE IF to_index <= @ /\ @ < from_index THEN @ + 1
                                  ELSE @],
                            d1, "playlist_reordered", "bound")

\* a reorder_playlist that does not move the index up when a song is moved
\* to before it
reorder_playlist_no_shift_up(e, d, playlist_name, from_index, to_index, fail) ==
    IF playlist_name \notin DOMAIN e.playlists
    THEN OutDb(e, d, "error_not_found", "")
    ELSE IF playlist_name = Library
    THEN OutDb(e, d, "error_protected", "")
    ELSE IF ~(/\ 0 <= from_index /\ from_index < Len(e.playlists[playlist_name])
              /\ 0 <= to_index /\ to_index < Len(e.playlists[playlist_name]))
    THEN OutDb(e, d, "error_invalid_indices", "")
    ELSE LET e1 == [e EXCEPT !.playlists[playlist_name] =
                                 MoveItem(@, from_index, to_index)]
         IN  IF fail
             THEN OutDb(e1, d, "error_failed", "storage")
             ELSE LET playlist_id == select_playlist_id(d, playlist_name)
                      d1 == IF playlist_id # None
                            THEN insert_songs(delete_songs_of(d, playlist_id),
                                              playlist_id,
                                              e1.playlists[playlist_name], 0)
                            ELSE d
                  IN  IF e1.current_playlist_name # playlist_name
                      THEN OutDb(e1, d1, "playlist_reordered", "")
                      ELSE IF OutOfRange(e1.current_playlist, from_index)
                      THEN OutDb(e1, d1, "error_failed", "IndexError")
                      ELSE OutDb([e1 EXCEPT
                              !.current_playlist = MoveItem(@, from_index, to_index),
                              !.playlist_index =
                                  IF @ = from_index THEN to_index
                                  ELSE IF from_index < @ /\ @ <= to_index THEN @ - 1
                                  ELSE @],
                            d1, "playlist_reordered", "bound")

\* a reorder that does not move the index down when its song moves down
reorder_playlist_no_shift_down(e, d, playlist_name, from_index, to_index, fail) ==
    IF playlist_name \notin DOMAIN e.playlists
    THEN OutDb(e, d, "error_not_found", "")
    ELSE IF playlist_name = Library
    THEN OutDb(e, d, "error_protected", "")
    ELSE IF ~(/\ 0 <= from_index /\ from_index < Len(e.playlists[playlist_name])
              /\ 0 <= to_index /\ to_index < Len(e.playlists[playlist_name]))
    THEN OutDb(e, d, "error_invalid_indices", "")
    ELSE LET e1 == [e EXCEPT !.playlists[playlist_name] =
                                 MoveItem(@, from_index, to_index)]
         IN  IF fail
             THEN OutDb(e1, d, "error_failed", "storage")
             ELSE LET playlist_id == select_playlist_id(d, playlist_name)
                      d1 == IF playlist_id # None
                            THEN insert_songs(delete_songs_of(d, playlist_id),
                                              playlist_id,
                                              e1.playlists[playlist_name], 0)
                            ELSE d
                  IN  IF e1.current_playlist_name # playlist_name
                      THEN OutDb(e1, d1, "playlist_reordered", "")
                      ELSE IF OutOfRange(e1.current_playlist, from_index)
                      THEN OutDb(e1, d1, "error_failed", "IndexError")
                      ELSE OutDb([e1 EXCEPT
                              !.current_playlist = MoveItem(@, from_index, to_index),
                              !.playlist_index =
                                  IF @ = from_index THEN to_index
                                  ELSE IF to_index <= @ /\ @ < from_index THEN @ + 1
                                  ELSE @],
                            d1, "playlist_reordered", "bound")

\* reorder_playlist: the stored list is reordered in memory BEFORE the store
\* is written; the membership rows are deleted and re-inserted; the bound
\* copy and the index follow after the commit
reorder_playlist(e, d, playlist_name, from_index, to_index, fail) ==
    IF playlist_name \notin DOMAIN e.playlists
    THEN OutDb(e, d, "error_not_found", "")
    ELSE IF playlist_name = Library
    THEN OutDb(e, d, "error_protected", "")
    ELSE IF ~(/\ 0 <= from_index /\ from_index < Len(e.playlists[playlist_name])
              /\ 0 <= to_index /\ to_index < Len(e.playlists[playlist_name]))
    THEN OutDb(e, d, "error_invalid_indices", "")
    ELSE LET e1 == [e EXCEPT !.playlists[playlist_name] =
                                 MoveItem(@, from_index, to_index)]
         IN  IF fail
             THEN OutDb(e1, d, "error_failed", "storage")
             ELSE LET playlist_id == select_playlist_id(d, playlist_name)
                      d1 == IF playlist_id # None
                            THEN insert_songs(delete_songs_of(d, playlist_id),
                                              playlist_id,
                                              e1.playlists[playlist_name], 0)
                            ELSE d
                  IN  IF e1.current_playlist_name # playlist_name
                      THEN OutDb(e1, d1, "playlist_reordered", "")
                      ELSE IF OutOfRange(e1.current_playlist, from_index)
                      THEN OutDb(e1, d1, "error_failed", "IndexError")
                      ELSE OutDb([e1 EXCEPT
                              !.current_playlist = MoveItem(@, from_index, to_index),
                              !.playlist_index =
                                  IF @ = from_index THEN to_index
                                  ELSE IF from_index < @ /\ @ <= to_index THEN @ - 1
                                  ELSE IF to_index <= @ /\ @ < from_index THEN @ + 1
                                  ELSE @],
                            d1, "playlist_reordered", "bound")

\* a rename that adds the new key and keeps the old one
rename_playlist_keep_old(e, d, old_name, new_name, fail) ==
    IF old_name = Library
    THEN OutDb(e, d, "error_protected", "")
    ELSE IF old_name \notin DOMAIN e.playlists
    THEN OutDb(e, d, "error_not_found", "")
    ELSE IF new_name \in DOMAIN e.playlists
    THEN OutDb(e, d, "error_already_exists", "")
    ELSE IF fail \/ (unique_violation(d, new_name) /\ unique_violation(d, old_name))
    THEN OutDb(e, d, "error_failed", "storage")
    ELSE LET e1 == [e EXCEPT !.playlists = PutKey(@, new_name, e.playlists[old_name])]
             e2 == IF e1.current_playlist_name = old_name
                   THEN [e1 EXCEPT !.current_playlist_name = new_name]
                   ELSE e1
         IN  OutDb(e2, rename_playlist_row(d, new_name, old_name),
                   "playlist_renamed", "")

\* rename_playlist: store first, then the map key, then the bound name
rename_playlist(e, d, old_name, new_name, fail) ==
    IF old_name = Library
    THEN OutDb(e, d, "error_protected", "")
    ELSE IF old_name \notin DOMAIN e.playlists
    THEN OutDb(e, d, "error_not_found", "")
    ELSE IF new_name \in DOMAIN e.playlists
    THEN OutDb(e, d, "error_already_exists", "")
    ELSE IF fail \/ (unique_violation(d, new_name) /\ unique_violation(d, old_name))
    THEN OutDb(e, d, "error_failed", "storage")
    ELSE LET e1 == [e EXCEPT !.playlists =
                        PutKey(DropKey(@, old_name), new_name, e.playlists[old_name])]
             e2 == IF e1.current_playlist_name = old_name
                   THEN [e1 EXCEPT !.current_playlist_name = new_name]
                   ELSE e1
         IN  OutDb(e2, rename_playlist_row(d, new_name, old_name),
                   "playlist_renamed", "")

----------------------------------------------------------------------------
(* Requests executed one at a time: each action is one whole handler call. *)

Threads == {"monitor", "request"}

Pc0 == [t \in Threads |-> IF t = "monitor" THEN "m_while" ELSE "idle"]

Loc0 == [t \in Threads |-> [path |-> None]]

Ghost0 == [fg_advanced |-> FALSE, mon_advanced |-> FALSE]

\* os.path.exists: a handler checks at most one path, so it sees either a
\* disk that holds the file or one that does not
FileSets == {Songs, {}}

\* lists of songs of length at most n
SongLists(n) == UNION {[1..k -> Songs] : k \in 0..n}

AllSongs == [i \in 1..NumSongs |-> i]

RECURSIVE StoreOf(_, _, _)
\* the store that holds the playlists `pls` (all but Library)
StoreOf(pls, names, d) ==
    IF names = {} THEN d
    ELSE LET n == CHOOSE x \in names : \A y \in names : x = "P" \/ y # "P"
             d1 == insert_playlist(d, n)
         IN  StoreOf(pls, names \ {n}, insert_songs(d1, d1.seq, pls[n], 0))

\* the result of a call is recorded; a call that would start a song with a
\* full history, or push playlist_index past MaxIndex, is outside the bounds
Returns(op, args, o) ==
    /\ Len(o.eng.history) <= MaxHistory
    /\ o.eng.playlist_index <= MaxIndex
    /\ eng' = o.eng
    /\ ret' = Ret(op, eng.playlist_index, o.status, o.branch)

KeepThreads == UNCHANGED <<pc, loc, ghost>>

Req_play_playlist ==
    \E name \in Names :
        \E perm \in (IF eng.shuffle /\ name \in DOMAIN eng.playlists
                     THEN Shuffles(eng.playlists[name]) ELSE {<< >>}) :
          \E fs \in FileSets :
            /\ Returns("play_playlist", <<name>>, play_playlist(eng, fs, name, perm))
            /\ UNCHANGED db /\ KeepThreads

Req_next ==
    \E fs \in FileSets :
    /\ Returns("next", << >>, next(eng, fs))
    /\ UNCHANGED db /\ KeepThreads

Req_previous ==
    \E fs \in FileSets :
    /\ Returns("previous", << >>, previous(eng, fs))
    /\ UNCHANGED db /\ KeepThreads

Req_stop ==
    /\ Returns("stop", << >>, stop(eng))
    /\ UNCHANGED db /\ KeepThreads

Req_pause ==
    /\ Returns("pause", << >>, pause(eng))
    /\ UNCHANGED db /\ KeepThreads

Req_resume ==
    /\ Returns("resume", << >>, resume(eng))
    /\ UNCHANGED db /\ KeepThreads

Req_add_to_queue ==
    \E song \in Songs \cup {None} :
        /\ Len(eng.queue) < MaxQueue
        /\ Returns("add_to_queue", <<song>>, add_to_queue(eng, song))
        /\ UNCHANGED db /\ KeepThreads

Req_set_repeat ==
    \E mode \in RepeatModes \cup {"bad"} :
        /\ Returns("set_repeat", <<mode>>, set_repeat(eng, mode))
        /\ UNCHANGED db /\ KeepThreads

\* the device reaches the end of the track it is playing
SongEnds ==
    /\ eng.player.state = "Playing"
    /\ eng' = [eng EXCEPT !.player.state = "Ended"]
    /\ ret' = Ret("song_ends", eng.playlist_index, "", "")
    /\ ghost' = Ghost0
    /\ UNCHANGED <<db, pc, loc>>

\* one iteration of _monitor_loop that finds the track ended
MonitorTick ==
    \E fs \in FileSets :
    /\ eng.running
    /\ eng.current_song # None /\ eng.is_playing
    /\ eng.player.state = "Ended"
    /\ Returns("_handle_song_end", << >>, handle_song_end(eng, fs))
    /\ UNCHANGED db /\ KeepThreads

\* after construction: Library holds the music table, and the store holds
\* playlist P with one song
Init ==
    /\ LET pls == [n \in {Library, "P"} |-> IF n = Library THEN AllSongs ELSE <<1>>]
       IN  /\ eng = Engine0(pls)
           /\ db = StoreOf(pls, {"P"}, Db0)
    /\ ret = Ret0
    /\ pc = Pc0
    /\ loc = Loc0
    /\ ghost = Ghost0

Next ==
    \/ Req_play_playlist
    \/ Req_next
    \/ Req_previous
    \/ Req_stop
    \/ Req_add_to_queue
    \/ Req_set_repeat
    \/ SongEnds
    \/ MonitorTick

Spec == Init /\ [][Next]_vars

----------------------------------------------------------------------------
(* Playlist management requests, one at a time, with a store that may fail *)

ReturnsDb(op, args, o) ==
    /\ Returns(op, args, o)
    /\ db' = o.db

Req_create_playlist(fail) ==
    /\ db.seq < MaxPlaylistId
    /\ \E name \in Names, songs \in SongLists(MaxLen) :
          ReturnsDb("create_playlist", <<name>>,
                    create_playlist(eng, db, name, songs, fail))
    /\ KeepThreads

Req_delete_playlist(fail) ==
    /\ \E name \in Names :
          ReturnsDb("delete_playlist", <<name>>, delete_playlist(eng, db, name, fail))
    /\ KeepThreads

Req_add_to_playlist(fail) ==
    /\ \E name \in Names, song \in Songs \cup {None} :
          /\ name \in DOMAIN eng.playlists => Len(eng.playlists[name]) < MaxLen
          /\ ReturnsDb("add_to_playlist", <<name, song>>,
                       add_to_playlist(eng, db, name, song, fail))
    /\ KeepThreads

Req_remove_from_playlist(fail) ==
    /\ \E name \in Names, index \in 0..MaxLen :
          ReturnsDb("remove_from_playlist", <<name, index>>,
                    remove_from_playlist(eng, db, name, index, fail))
    /\ KeepThreads

Req_reorder_playlist(fail) ==
    /\ \E name \in Names, from_index \in 0..MaxLen, to_index \in 0..MaxLen :
          ReturnsDb("reorder_playlist", <<name, from_index, to_index>>,
                    reorder_playlist(eng, db, name, from_index, to_index, fail))
    /\ KeepThreads

Req_rename_playlist(fail) ==
    /\ \E old_name \in Names, new_name \in Names :
          ReturnsDb("rename_playlist", <<old_name, new_name>>,
                    rename_playlist(eng, db, old_name, new_name, fail))
    /\ KeepThreads

\* after construction with an empty store: only Library is in the map
InitStore ==
    /\ eng = Engine0([n \in {Library} |-> AllSongs])
    /\ db = Db0
    /\ ret = Ret0
    /\ pc = Pc0
    /\ loc = Loc0
    /\ ghost = Ghost0

\* a request meets a store that fails on it, or one that does not
NextStore ==
    \/ \E fail \in BOOLEAN : Req_create_playlist(fail)
    \/ \E fail \in BOOLEAN : Req_delete_playlist(fail)
    \/ \E fail \in BOOLEAN : Req_add_to_playlist(fail)
    \/ \E fail \in BOOLEAN : Req_remove_from_playlist(fail)
    \/ \E fail \in BOOLEAN : Req_reorder_playlist(fail)
    \/ \E fail \in BOOLEAN : Req_rename_playlist(fail)

SpecStore == InitStore /\ [][NextStore]_vars

\* the same requests with a store no statement of which fails
NextStoreOk ==
    \/ Req_create_playlist(FALSE)
    \/ Req_delete_playlist(FALSE)
    \/ Req_add_to_playlist(FALSE)
    \/ Req_remove_from_playlist(FALSE)
    \/ Req_reorder_playlist(FALSE)
    \/ Req_rename_playlist(FALSE)

SpecStoreOk == InitStore /\ [][NextStoreOk]_vars

\* the same requests with a store that may fail on create_playlist only
NextCreate ==
    \/ \E fail \in BOOLEAN : Req_create_playlist(fail)
    \/ Req_delete_playlist(FALSE)
    \/ Req_add_to_playlist(FALSE)
    \/ Req_remove_from_playlist(FALSE)
    \/ Req_reorder_playlist(FALSE)
    \/ Req_rename_playlist(FALSE)

SpecCreate == InitStore /\ [][NextCreate]_vars

\* playlist management on playlists that are played: the requests of
\* NextStoreOk together with play_playlist and next
NextBound ==
    \/ Req_create_playlist(FALSE)
    \/ Req_delete_playlist(FALSE)
    \/ Req_add_to_playlist(FALSE)
    \/ Req_remove_from_playlist(FALSE)
    \/ Req_reorder_playlist(FALSE)
    \/ Req_rename_playlist(FALSE)
    \/ Req_play_playlist
    \/ Req_next

SpecBound == InitStore /\ [][NextBound]_vars

----------------------------------------------------------------------------
(* Playing playlists.  The store holds an empty playlist Q when the engine *)
(* starts; no playlist is named P.  Playlists are played and advanced,     *)
(* songs are queued, and playback is stopped.                               *)

InitPlay ==
    /\ LET pls == [n \in {Library, "Q"} |-> IF n = Library THEN AllSongs ELSE << >>]
       IN  /\ eng = Engine0(pls)
           /\ db = StoreOf(pls, {"Q"}, Db0)
    /\ ret = Ret0
    /\ pc = Pc0
    /\ loc = Loc0
    /\ ghost = Ghost0

NextPlay ==
    \/ Req_play_playlist
    \/ Req_next
    \/ Req_add_to_queue
    \/ Req_stop

SpecPlay == InitPlay /\ [][NextPlay]_vars

----------------------------------------------------------------------------
(* Volume requests *)

\* the integer levels a request may carry
Levels == (0 - MaxOver)..(MAX_VOLUME + MaxOver)

Req_set_volume ==
    \E level \in Levels :
        /\ Returns("set_volume", <<level>>, set_volume(eng, level))
        /\ UNCHANGED db /\ KeepThreads

Req_volume_up ==
    /\ Returns("volume_up", << >>, set_volume(eng, eng.volume + VOLUME_STEP))
    /\ UNCHANGED db /\ KeepThreads

Req_volume_down ==
    /\ Returns("volume_down", << >>, set_volume(eng, eng.volume - VOLUME_STEP))
    /\ UNCHANGED db /\ KeepThreads

Req_toggle_mute ==
    /\ Returns("toggle_mute", << >>, toggle_mute(eng))
    /\ UNCHANGED db /\ KeepThreads

NextVolume ==
    \/ Req_set_volume
    \/ Req_volume_up
    \/ Req_volume_down
    \/ Req_toggle_mute

SpecVolume == InitStore /\ [][NextVolume]_vars

----------------------------------------------------------------------------
(* Pausing.  Playlists are played, paused, resumed and stopped, and the    *)
(* track that plays comes to its end.                                       *)

NextPause ==
    \/ Req_play_playlist
    \/ Req_pause
    \/ Req_resume
    \/ Req_stop
    \/ SongEnds

SpecPause == Init /\ [][NextPause]_vars

----------------------------------------------------------------------------
(* Reordering a stored playlist.  The store holds a playlist P of up to    *)
(* MaxMove song snapshots when the engine starts (create_playlist takes    *)
(* the snapshots from the request, so they need not be in the music        *)
(* table).                                                                 *)

MoveSongs == 1..MaxMove

MoveLists == UNION {[1..k -> MoveSongs] : k \in 0..MaxMove}

InitMove ==
    /\ \E songs \in MoveLists :
          LET pls == [n \in {Library, "P"} |-> IF n = Library THEN AllSongs ELSE songs]
          IN  /\ eng = Engine0(pls)
              /\ db = StoreOf(pls, {"P"}, Db0)
    /\ ret = Ret0
    /\ pc = Pc0
    /\ loc = Loc0
    /\ ghost = Ghost0

\* P is reordered
NextMove == Req_reorder_playlist(FALSE)

SpecMove == InitMove /\ [][NextMove]_vars

\* P is played, advanced and reordered
NextMoveBound ==
    \/ Req_reorder_playlist(FALSE)
    \/ Req_play_playlist
    \/ Req_next

SpecMoveBound == InitMove /\ [][NextMoveBound]_vars

----------------------------------------------------------------------------
(* Shuffling the playlist that is played (P of up to MaxMove songs) *)

Req_set_shuffle ==
    \E enabled \in BOOLEAN :
        \E perm \in Shuffles(Suffix(eng.current_playlist, eng.playlist_index + 1)) :
            /\ Returns("set_shuffle", <<enabled>>, set_shuffle(eng, enabled, perm))
            /\ UNCHANGED db /\ KeepThreads

NextShuffle ==
    \/ Req_set_shuffle
    \/ Req_play_playlist
    \/ Req_next

SpecShuffle == InitMove /\ [][NextShuffle]_vars

----------------------------------------------------------------------------
(* The threads.  The monitor thread runs _monitor_loop; a request thread   *)
(* (Flask serves each request on a thread of its own) runs next() or       *)
(* stop().  No lock is taken anywhere in the engine, so the statements of  *)
(* the two interleave; a step is one statement.  The media files exist.    *)

\* where a thread continues when the handler it runs returns
ReturnTo(t) == IF t = "monitor" THEN "m_sleep" ELSE "idle"

\* where it ends when the handler raises: nothing catches an exception in
\* _monitor_loop, so the monitor thread is gone; Flask answers the request
\* with a server error
RaiseTo(t) == IF t = "monitor" THEN "dead" ELSE "idle"

Goto(t, label) == pc' = [pc EXCEPT ![t] = label]

\* the statements inside a mutating engine operation
Mutating == {"h_repeat", "h_one", "h_stop", "popleft", "inc", "len", "index",
             "pf_exists", "pf_start", "pf_update", "n_queue", "s_stop"}

\* an advance past the track that ended is charged to the thread making it
Advanced(t) ==
    IF t = "monitor" THEN [ghost EXCEPT !.mon_advanced = TRUE]
    ELSE IF eng.player.state = "Ended" THEN [ghost EXCEPT !.fg_advanced = TRUE]
    ELSE ghost

\* while self.running: if self.player and self.current_song and self.is_playing
m_while ==
    /\ pc["monitor"] = "m_while"
    /\ eng.running
    /\ Goto("monitor", IF eng.current_song # None /\ eng.is_playing
                       THEN "m_get_state" ELSE "m_sleep")
    /\ UNCHANGED <<eng, db, ret, loc, ghost>>

\* state = self.player.get_state(); if state == vlc.State.Ended
m_get_state ==
    /\ pc["monitor"] = "m_get_state"
    /\ Goto("monitor", IF eng.player.state = "Ended" THEN "h_repeat" ELSE "m_sleep")
    /\ UNCHANGED <<eng, db, ret, loc, ghost>>

\* time.sleep(0.5)
m_sleep ==
    /\ pc["monitor"] = "m_sleep"
    /\ Goto("monitor", "m_while")
    /\ UNCHANGED <<eng, db, ret, loc, ghost>>

\* _handle_song_end: if self.repeat == 'one' / elif self.queue /
\* elif self.current_playlist / else
h_repeat ==
    /\ pc["monitor"] = "h_repeat"
    /\ Goto("monitor", IF eng.repeat = "one" THEN "h_one"
                       ELSE IF eng.queue # << >> THEN "popleft"
                       ELSE IF eng.current_playlist # << >> THEN "inc"
                       ELSE "h_stop")
    /\ UNCHANGED <<eng, db, ret, loc, ghost>>

\* self.play_file(self.current_song['file_location']): subscripting None
\* raises TypeError
h_one ==
    /\ pc["monitor"] = "h_one"
    /\ IF eng.current_song = None
       THEN Goto("monitor", RaiseTo("monitor")) /\ UNCHANGED loc
       ELSE /\ Goto("monitor", "pf_exists")
            /\ loc' = [loc EXCEPT !["monitor"].path = eng.current_song]
    /\ UNCHANGED <<eng, db, ret, ghost>>

\* self.stop() at the end of the playlist or with nothing to play
h_stop ==
    /\ pc["monitor"] = "h_stop"
    /\ eng' = stop(eng).eng
    /\ Goto("monitor", ReturnTo("monitor"))
    /\ UNCHANGED <<db, ret, loc, ghost>>

\* next(): if self.queue / elif self.current_playlist / else
n_queue ==
    /\ pc["request"] = "n_queue"
    /\ Goto("request", IF eng.queue # << >> THEN "popleft"
                       ELSE IF eng.current_playlist # << >> THEN "inc"
                       ELSE ReturnTo("request"))
    /\ UNCHANGED <<eng, db, ret, loc, ghost>>

\* next_song = self.queue.popleft(): IndexError on a deque emptied meanwhile
popleft(t) ==
    /\ pc[t] = "popleft"
    /\ IF eng.queue = << >>
       THEN Goto(t, RaiseTo(t)) /\ UNCHANGED <<eng, loc, ghost>>
       ELSE /\ eng' = [eng EXCEPT !.queue = Tail(@)]
            /\ loc' = [loc EXCEPT ![t].path = Head(eng.queue)]
            /\ ghost' = Advanced(t)
            /\ Goto(t, "pf_exists")
    /\ UNCHANGED <<db, ret>>

\* self.playlist_index += 1
inc(t) ==
    /\ pc[t] = "inc"
    /\ eng.playlist_index < MaxIndex
    /\ eng' = [eng EXCEPT !.playlist_index = @ + 1]
    /\ ghost' = Advanced(t)
    /\ Goto(t, "len")
    /\ UNCHANGED <<db, ret, loc>>

\* if self.playlist_index >= len(self.current_playlist): wrap, or stop (the
\* handler) / return end_of_playlist (next)
len(t) ==
    /\ pc[t] = "len"
    /\ IF eng.playlist_index >= Len(eng.current_playlist)
       THEN IF eng.repeat = "all"
            THEN eng' = [eng EXCEPT !.playlist_index = 0] /\ Goto(t, "index")
            ELSE /\ Goto(t, IF t = "monitor" THEN "h_stop" ELSE ReturnTo(t))
                 /\ UNCHANGED eng
       ELSE Goto(t, "index") /\ UNCHANGED eng
    /\ UNCHANGED <<db, ret, loc, ghost>>

\* self.current_playlist[self.playlist_index]['file_location']
index(t) ==
    /\ pc[t] = "index"
    /\ IF OutOfRange(eng.current_playlist, eng.playlist_index)
       THEN Goto(t, RaiseTo(t)) /\ UNCHANGED loc
       ELSE /\ loc' = [loc EXCEPT ![t].path = At(eng.current_playlist, eng.playlist_index)]
            /\ Goto(t, "pf_exists")
    /\ UNCHANGED <<eng, db, ret, ghost>>

\* play_file: if not os.path.exists(file_path): return
pf_exists(t) ==
    /\ pc[t] = "pf_exists"
    /\ Goto(t, IF play_file(eng, Songs, loc[t].path).status = "playing"
               THEN "pf_start" ELSE ReturnTo(t))
    /\ UNCHANGED <<eng, db, ret, loc, ghost>>

\* self.player.stop(); set_media; self.player.play(); time.sleep(0.1)
pf_start(t) ==
    /\ pc[t] = "pf_start"
    /\ eng' = [eng EXCEPT !.player.state = "Playing"]
    /\ Goto(t, "pf_update")
    /\ UNCHANGED <<db, ret, loc, ghost>>

\* the rest of play_file: current_song, is_playing, history, volume
pf_update(t) ==
    /\ pc[t] = "pf_update"
    /\ Len(eng.history) < MaxHistory
    /\ eng' = play_file(eng, Songs, loc[t].path).eng
    /\ Goto(t, ReturnTo(t))
    /\ UNCHANGED <<db, ret, loc, ghost>>

\* a request arrives: POST /next or POST /stop
request(op) ==
    /\ pc["request"] = "idle"
    /\ Goto("request", IF op = "next" THEN "n_queue" ELSE "s_stop")
    /\ UNCHANGED <<eng, db, ret, loc, ghost>>

\* stop()
s_stop ==
    /\ pc["request"] = "s_stop"
    /\ eng' = stop(eng).eng
    /\ Goto("request", ReturnTo("request"))
    /\ UNCHANGED <<db, ret, loc, ghost>>

\* the engine after play_playlist('Library') and some add_to_queue and
\* set_repeat requests: song 1 plays
InitConc ==
    /\ \E q \in SongLists(MaxQueue), mode \in RepeatModes :
          eng = [play_playlist(Engine0([n \in {Library} |-> AllSongs]),
                               Songs, Library, << >>).eng
                    EXCEPT !.queue = q, !.repeat = mode]
    /\ db = Db0
    /\ ret = Ret0
    /\ pc = Pc0
    /\ loc = Loc0
    /\ ghost = Ghost0

NextConc ==
    \/ m_while
    \/ m_get_state
    \/ m_sleep
    \/ h_repeat
    \/ h_one
    \/ h_stop
    \/ n_queue
    \/ s_stop
    \/ \E t \in Threads : popleft(t)
    \/ \E t \in Threads : inc(t)
    \/ \E t \in Threads : len(t)
    \/ \E t \in Threads : index(t)
    \/ \E t \in Threads : pf_exists(t)
    \/ \E t \in Threads : pf_start(t)
    \/ \E t \in Threads : pf_update(t)
    \/ \E op \in {"next", "stop"} : request(op)
    \/ SongEnds

SpecConc == InitConc /\ [][NextConc]_vars

----------------------------------------------------------------------------
(* Properties *)

\* a playlist is bound as active
Bound(e) == e.current_playlist_name # NoName /\ e.current_playlist # << >>

\* what play_file leaves alone when the file is missing
SamePlayback(e1, e2) ==
    /\ e1.current_song = e2.current_song
    /\ e1.is_playing = e2.is_playing
    /\ e1.player = e2.player
    /\ e1.history = e2.history

SameBinding(e1, e2) ==
    /\ e1.current_playlist_name = e2.current_playlist_name
    /\ e1.current_playlist = e2.current_playlist
    /\ e1.playlist_index = e2.playlist_index

\* the song `song` was started by the call
Started(e, song) ==
    /\ e.current_song = song
    /\ e.is_playing
    /\ e.player.state = "Playing"

C2_EndOfPlaylistStops ==
    [][(/\ ret'.op = "next" /\ eng.repeat = "off" /\ eng.queue = << >>
        /\ Bound(eng) /\ eng.playlist_index = Len(eng.current_playlist) - 1)
        => /\ ret'.status = "end_of_playlist"
           /\ ~eng'.is_playing
           /\ eng'.current_song = None]_vars

\* C3 as stated: with repeat=all, an empty queue and the bound playlist at
\* its last index, next() sets playlist_index to 0 and plays entry 0.
C3_WrapPlaysFirst ==
    [][(/\ ret'.op = "next" /\ eng.repeat = "all" /\ eng.queue = << >>
        /\ Bound(eng) /\ eng.playlist_index = Len(eng.current_playlist) - 1)
        => /\ eng'.playlist_index = 0
           /\ Started(eng', At(eng.current_playlist, 0))]_vars

\* C3 amended: with repeat=all, an empty queue and the bound playlist at its
\* last index, next() sets playlist_index to 0; it plays entry 0 when that
\* entry's file exists, and otherwise returns a file-not-found error with
\* the playback state as it was.
C3_WrapToFirst ==
    [][(/\ ret'.op = "next" /\ eng.repeat = "all" /\ eng.queue = << >>
        /\ Bound(eng) /\ eng.playlist_index = Len(eng.current_playlist) - 1)
        => /\ eng'.playlist_index = 0
           /\ eng'.current_playlist = eng.current_playlist
           /\ ret'.status \in {"playing", "error_file_not_found"}
           /\ ret'.status = "playing" => Started(eng', At(eng.current_playlist, 0))
           /\ ret'.status = "error_file_not_found" => SamePlayback(eng, eng')]_vars

\* next() has just wrapped from the last index of a bound playlist and
\* plays entry 0
C3_Witness ==
    /\ ret.op = "next" /\ ret.branch = "wrap" /\ ret.status = "playing"
    /\ Bound(eng) /\ eng.repeat = "all" /\ eng.queue = << >>
    /\ ret.at = Len(eng.current_playlist) - 1
    /\ eng.playlist_index = 0
    /\ eng.current_song = At(eng.current_playlist, 0)

\* C4: after stop() the current song is null, is_playing is false and no
\* binding is left (no name, no bound list, index 0), so that a next() that
\* follows with an empty queue reports no-next-song; the queue and the
\* stored playlists are unchanged.
C4_StopClearsBinding ==
    [][/\ ret'.op = "stop"
          => /\ eng'.current_song = None
             /\ ~eng'.is_playing
             /\ eng'.current_playlist_name = NoName
             /\ eng'.current_playlist = << >>
             /\ eng'.playlist_index = 0
             /\ eng'.queue = eng.queue
             /\ eng'.playlists = eng.playlists
       /\ (ret.op = "stop" /\ ret'.op = "next" /\ eng.queue = << >>)
          => ret'.status = "no_next_song"]_vars

\* C5: at most one thread is inside a mutating engine operation.
C5_Serialized == ~(pc["monitor"] \in Mutating /\ pc["request"] \in Mutating)

\* C6: the monitor and a foreground next() never both advance past the same
\* ended track.
C6_SingleAdvance == ~(ghost.fg_advanced /\ ghost.mon_advanced)

\* C7: the monitor loop does not terminate while the running flag is set.
C7_MonitorAlive == eng.running => pc["monitor"] # "dead"

\* C8: no engine operation raises; previous() and next() never index the
\* bound playlist out of range.
C8_NeverRaises == ret.status \notin {"raise_IndexError", "raise_TypeError"}

\* the membership rows of playlist `pid`, ordered by position, are the list
\* `songs`, at positions 0..n-1
Mirrors(d, pid, songs) ==
    LET rows == select_songs(d, pid)
    IN  /\ load_playlist(d, pid) = songs
        /\ \A i \in DOMAIN rows : rows[i].position = i - 1

\* C9: after any sequence of successful playlist operations, for every
\* stored playlist but Library the membership rows ordered by position equal
\* the in-memory list, and their positions are 0..n-1 without gap or
\* duplicate.
C9_StoreMirrorsMemory ==
    \A name \in DOMAIN eng.playlists \ {Library} :
        /\ select_playlist_id(db, name) # None
        /\ Mirrors(db, select_playlist_id(db, name), eng.playlists[name])

\* a song was just removed from before the end of a playlist that still
\* holds one
C9_Witness ==
    /\ ret.op = "remove_from_playlist" /\ ret.status = "song_removed_from_playlist"
    /\ \E name \in DOMAIN eng.playlists \ {Library} :
          /\ Len(eng.playlists[name]) >= 1
          /\ Len(rows_of(db, select_playlist_id(db, name))) >= 1

\* C10: when a storage statement fails during a playlist mutation, the call
\* returns an error and the playlists map, the song lists and the binding
\* are as before the call.
C10_FailureKeepsMemory ==
    [][(ret'.status = "error_failed" /\ ret'.branch = "storage")
        => /\ eng'.playlists = eng.playlists
           /\ SameBinding(eng, eng')]_vars

\* C11: create_playlist with a name that is in the playlists map fails with
\* an already-exists error and changes neither the engine nor the store; when
\* the storage insert fails, the call returns an error, the name is not added
\* to the map and no playlist or membership row is committed.
C11_CreateFailsClean ==
    \A name \in Names, songs \in SongLists(MaxLen), fail \in BOOLEAN :
        LET o == create_playlist(eng, db, name, songs, fail)
        IN  /\ name \in DOMAIN eng.playlists
                => /\ o.status = "error_already_exists"
                   /\ o.eng = eng
                   /\ o.db = db
            /\ (name \notin DOMAIN eng.playlists /\ fail)
                => /\ o.status = "error_failed"
                   /\ o.eng = eng
                   /\ o.db = db

\* a create_playlist has just failed on the store: only Library is in the map
C11_Witness ==
    /\ ret.op = "create_playlist"
    /\ ret.status = "error_failed" /\ ret.branch = "storage"
    /\ db.playlists = << >>
    /\ DOMAIN eng.playlists = {Library}

\* C12: after a successful delete_playlist(name) the store holds no playlist
\* row of that name and no membership row that belonged to the playlist.
C12_DeleteCascades ==
    [][(ret'.op = "delete_playlist" /\ ret'.status = "playlist_deleted")
        => \A i \in DOMAIN db.playlists :
              select_playlist_id(db', db.playlists[i].name) = None
                  => rows_of(db', db.playlists[i].id) = << >>]_vars

\* C13: when delete_playlist deletes the playlist that is bound as active,
\* the binding is cleared (no bound name, empty bound list, index 0), so a
\* next() that follows with an empty queue reports no-next-song; when another
\* playlist is bound, or none, the binding is unchanged.
C13_DeleteClearsBinding ==
    [][(ret'.op = "delete_playlist" /\ ret'.status = "playlist_deleted")
        => IF eng.current_playlist_name \in DOMAIN eng.playlists \ DOMAIN eng'.playlists
           THEN /\ eng'.current_playlist_name = NoName
                /\ eng'.current_playlist = << >>
                /\ eng'.playlist_index = 0
                /\ eng'.queue = << >>
                     => \A fs \in FileSets : next(eng', fs).status = "no_next_song"
           ELSE SameBinding(eng, eng')]_vars

\* the playlist whose song is playing has just been deleted
C13_Witness ==
    /\ ret.op = "delete_playlist" /\ ret.status = "playlist_deleted"
    /\ eng.is_playing /\ eng.current_song # None
    /\ eng.current_playlist_name = NoName
    /\ eng.current_playlist = << >>

\* the positions a request may name, in range and out of range
AnyIndex == (0 - 1)..(MaxLen + 1)

\* C14: deleting, renaming, reordering or removing a song from Library fails
\* with a protected error for every argument combination, out-of-range
\* indices included, and leaves the engine (the Library list and the binding
\* with it) and the store unchanged.
C14_LibraryProtected ==
    \A fail \in BOOLEAN :
        LET outs ==
                {delete_playlist(eng, db, Library, fail)}
                \cup {rename_playlist(eng, db, Library, n, fail) : n \in Names}
                \cup {remove_from_playlist(eng, db, Library, i, fail) : i \in AnyIndex}
                \cup {reorder_playlist(eng, db, Library, i, j, fail) :
                        i \in AnyIndex, j \in AnyIndex}
        IN  \A o \in outs :
                /\ o.status = "error_protected"
                /\ o.eng = eng
                /\ o.db = db

\* a reorder of Library has just been refused while Library is bound and playing
C14_Witness ==
    /\ ret.op = "reorder_playlist" /\ ret.status = "error_protected"
    /\ eng.current_playlist_name = Library
    /\ eng.is_playing
    /\ eng.playlists[Library] = AllSongs

\* C15: after a successful add_to_playlist(name, song) on an existing playlist
\* of length n, get_playlist_songs(name) lists the song at index n behind the
\* n entries it had, and the store holds a membership row of that playlist
\* for the song at position n.
C15_AddAppends ==
    \A name \in DOMAIN eng.playlists, song \in Songs :
        LET n == Len(eng.playlists[name])
            o == add_to_playlist(eng, db, name, song, FALSE)
            rows == rows_of(o.db, select_playlist_id(o.db, name))
        IN  o.status = "song_added_to_playlist"
                => /\ get_playlist_songs(o.eng, name).songs
                          = Append(eng.playlists[name], search_song(song))
                   /\ \E i \in DOMAIN rows :
                          /\ rows[i].position = n
                          /\ json_loads(rows[i].song_data) = search_song(song)

\* C16: after a successful remove_from_playlist(name, i) the listing is the
\* former listing without entry i: the entries before i keep their position,
\* every entry after i moves down by exactly one, and the stored rows hold
\* the same list at positions 0..n-2 without a gap.
C16_RemoveShiftsDown ==
    \A name \in DOMAIN eng.playlists, i \in AnyIndex :
        LET old == eng.playlists[name]
            o == remove_from_playlist(eng, db, name, i, FALSE)
            new == get_playlist_songs(o.eng, name).songs
        IN  o.status = "song_removed_from_playlist"
                => /\ Len(new) = Len(old) - 1
                   /\ \A k \in 1..Len(new) :
                          new[k] = IF k <= i THEN old[k] ELSE old[k + 1]
                   /\ Mirrors(o.db, select_playlist_id(o.db, name), new)

\* a song has just been removed from a full playlist
C16_Witness ==
    /\ ret.op = "remove_from_playlist" /\ ret.status = "song_removed_from_playlist"
    /\ \E name \in DOMAIN eng.playlists \ {Library} :
          /\ Len(eng.playlists[name]) = MaxLen - 1
          /\ Len(rows_of(db, select_playlist_id(db, name))) = MaxLen - 1

\* how often song x occurs in a list
Count(list, x) == Cardinality({i \in DOMAIN list : list[i] = x})

\* C17: for every playlist and valid indices from, to, reorder_playlist
\* produces exactly the list obtained by removing the element at `from` and
\* inserting it at `to` (P = A,B,C and reorder(1,0) list B,A,C), and every
\* song occurs as often as before.
C17_ReorderMoves ==
    \A name \in DOMAIN eng.playlists \ {Library} :
        LET old == eng.playlists[name]
        IN  \A from \in 0..(Len(old) - 1), to \in 0..(Len(old) - 1) :
                LET o == reorder_playlist(eng, db, name, from, to, FALSE)
                    new == get_playlist_songs(o.eng, name).songs
                IN  /\ o.status = "playlist_reordered"
                    /\ Len(new) = Len(old)
                    /\ new[to + 1] = old[from + 1]
                    /\ RemoveAt(new, to + 1) = RemoveAt(old, from + 1)
                    /\ \A x \in Range(old) \cup Range(new) :
                           Count(new, x) = Count(old, x)
                    /\ (old = <<1, 2, 3>> /\ from = 1 /\ to = 0) => new = <<2, 1, 3>>

\* the playlist A,B,C has just been reordered to B,A,C
C17_Witness ==
    /\ ret.op = "reorder_playlist" /\ ret.status = "playlist_reordered"
    /\ "P" \in DOMAIN eng.playlists
    /\ eng.playlists["P"] = <<2, 1, 3>>
    /\ load_playlist(db, select_playlist_id(db, "P")) = <<2, 1, 3>>

\* C18: for every playlist and valid indices from, to, reorder_playlist(name,
\* from, to) followed by reorder_playlist(name, to, from) restores the
\* original order in memory and in the store, and restores playlist_index
\* (and the bound copy) when that playlist is bound.
C18_ReorderRoundTrip ==
    \A name \in DOMAIN eng.playlists \ {Library} :
        LET old == eng.playlists[name]
        IN  \A from \in 0..(Len(old) - 1), to \in 0..(Len(old) - 1) :
                LET o1 == reorder_playlist(eng, db, name, from, to, FALSE)
                    o2 == reorder_playlist(o1.eng, o1.db, name, to, from, FALSE)
                    playlist_id == select_playlist_id(db, name)
                IN  /\ o1.status = "playlist_reordered"
                    /\ o2.status = "playlist_reordered"
                    /\ o2.eng.playlists[name] = old
                    /\ select_playlist_id(o2.db, name) = playlist_id
                    /\ select_songs(o2.db, playlist_id) = select_songs(db, playlist_id)
                    /\ eng.current_playlist_name = name
                        => /\ o2.eng.playlist_index = eng.playlist_index
                           /\ o2.eng.current_playlist = eng.current_playlist
                           /\ o2.eng.current_playlist_name = name

\* a bound playlist of three songs has just been reordered while its second
\* or third entry is the current one
C18_Witness ==
    /\ ret.op = "reorder_playlist" /\ ret.status = "playlist_reordered"
    /\ ret.branch = "bound"
    /\ eng.current_playlist_name = "P"
    /\ Len(eng.current_playlist) = 3
    /\ Cardinality(Range(eng.current_playlist)) = 3
    /\ eng.playlist_index \in {1, 2}

\* what play_playlist must leave alone when it fails
SamePlayState(e1, e2) ==
    /\ SamePlayback(e1, e2)
    /\ SameBinding(e1, e2)
    /\ e1.queue = e2.queue

\* C19: play_playlist on an unknown name fails with a not-found error and on
\* an existing empty playlist with an empty error; in both cases the current
\* song, is_playing, the binding and its index, the queue and the history
\* are unchanged.
C19_PlayPlaylistFails ==
    \A name \in Names, fs \in FileSets :
        LET o == play_playlist(eng, fs, name, << >>)
        IN  /\ name \notin DOMAIN eng.playlists
                => o.status = "error_not_found" /\ SamePlayState(eng, o.eng)
            /\ (name \in DOMAIN eng.playlists /\ eng.playlists[name] = << >>)
                => o.status = "error_empty" /\ SamePlayState(eng, o.eng)

\* an empty playlist has just been refused while a song of the bound Library
\* is playing and a song is queued
C19_Witness ==
    /\ ret.op = "play_playlist" /\ ret.status = "error_empty"
    /\ eng.is_playing /\ eng.current_song # None
    /\ eng.current_playlist_name = Library
    /\ eng.playlist_index > 0
    /\ eng.queue # << >>
    /\ eng.history # << >>

\* C20: after any sequence of set_volume, volume up/down and toggle_mute
\* calls with arbitrary integer levels the stored volume is within 0..100,
\* and set_volume(v) stores exactly max(0, min(100, v)).
C20_VolumeClamped ==
    /\ eng.volume \in 0..100
    /\ \A v \in Levels :
           set_volume(eng, v).eng.volume
               = (IF v < 0 THEN 0 ELSE IF v > 100 THEN 100 ELSE v)

\* volume down has just run into the lower end while muted
C20_Witness ==
    /\ ret.op = "volume_down"
    /\ eng.volume = 0
    /\ eng.is_muted
    /\ eng.player.volume = 0

\* C21: toggle_mute never changes the stored volume, and once a set_volume
\* or toggle_mute call was made the device level is 0 when muted and the
\* stored volume when not muted (mute, set_volume(50), unmute leaves the
\* device at 50).
C21_MuteKeepsVolume ==
    /\ toggle_mute(eng).eng.volume = eng.volume
    /\ ret.op # "init"
        => eng.player.volume = (IF eng.is_muted THEN 0 ELSE eng.volume)
    /\ LET e1 == toggle_mute([eng EXCEPT !.is_muted = FALSE]).eng
           e2 == set_volume(e1, 50).eng
           e3 == toggle_mute(e2).eng
       IN  ~e3.is_muted /\ e3.volume = 50 /\ e3.player.volume = 50

\* the engine has just been unmuted with the stored volume at 50, away from
\* the level it started with
C21_Witness ==
    /\ ret.op = "toggle_mute"
    /\ ~eng.is_muted
    /\ eng.volume = 50
    /\ eng.player.volume = 50

\* C22: a second pause() directly after a pause() returns already_paused and
\* leaves the engine as the first pause() left it; resume() with no current
\* song returns nothing_to_resume and changes nothing.
C22_PauseIdempotent ==
    /\ LET o1 == pause(eng)
           o2 == pause(o1.eng)
       IN  /\ o1.status \in {"paused", "already_paused"}
           /\ o2.status = "already_paused"
           /\ o2.eng = o1.eng
    /\ eng.current_song = None
        => /\ resume(eng).status = "nothing_to_resume"
           /\ resume(eng).eng = eng

\* a paused song has just been paused again
C22_Witness ==
    /\ ret.op = "pause" /\ ret.status = "already_paused"
    /\ eng.current_song # None
    /\ ~eng.is_playing
    /\ eng.player.state = "Paused"

\* C23: set_shuffle(true) with a bound list permutes only the entries at
\* indices greater than playlist_index: the entries at 0..playlist_index,
\* playlist_index, the history and the multiset of bound songs are
\* unchanged, and the stored playlists keep their order.
C23_ShuffleTailOnly ==
    eng.current_playlist # << >> =>
        \A perm \in Shuffles(Suffix(eng.current_playlist, eng.playlist_index + 1)) :
            LET o == set_shuffle(eng, TRUE, perm)
                old == eng.current_playlist
                new == o.eng.current_playlist
            IN  /\ o.eng.shuffle
                /\ Len(new) = Len(old)
                /\ \A i \in 1..Min(eng.playlist_index + 1, Len(old)) : new[i] = old[i]
                /\ \A x \in Range(old) \cup Range(new) : Count(new, x) = Count(old, x)
                /\ o.eng.playlist_index = eng.playlist_index
                /\ o.eng.history = eng.history
                /\ o.eng.playlists = eng.playlists
                /\ o.eng.current_playlist_name = eng.current_playlist_name

\* shuffle has just been enabled on a bound list of three different songs
\* whose first entry is the current one, and the two entries behind it have
\* changed places
C23_Witness ==
    /\ ret.op = "set_shuffle"
    /\ eng.shuffle
    /\ eng.current_playlist_name = "P"
    /\ eng.playlist_index = 0
    /\ Len(eng.current_playlist) = 3
    /\ Cardinality(Range(eng.current_playlist)) = 3
    /\ eng.playlists["P"][1] = eng.current_playlist[1]
    /\ eng.playlists["P"][2] = eng.current_playlist[3]
    /\ eng.playlists["P"][3] = eng.current_playlist[2]

Req_remove_from_queue ==
    \E idx \in AnyIndex :
        /\ Returns("remove_from_queue", <<idx>>, remove_from_queue(eng, idx))
        /\ UNCHANGED db /\ KeepThreads

Req_clear_queue ==
    /\ Returns("clear_queue", << >>, clear_queue(eng))
    /\ UNCHANGED db /\ KeepThreads

\* songs were queued before the first request that is followed
InitQueue ==
    /\ \E q \in SongLists(MaxQueued) :
          eng = [Engine0([n \in {Library} |-> AllSongs]) EXCEPT !.queue = q]
    /\ db = Db0
    /\ ret = Ret0
    /\ pc = Pc0
    /\ loc = Loc0
    /\ ghost = Ghost0

NextQueue ==
    \/ Req_remove_from_queue
    \/ Req_clear_queue
    \/ Req_add_to_queue
    \/ Req_next

SpecQueue == InitQueue /\ [][NextQueue]_vars

\* C25: remove_from_queue(index) with index outside [0, len(queue)) returns
\* the invalid-index error and changes nothing; with a valid index the queue
\* loses exactly the entry at that index, the entries before it keep their
\* places and the entries after it move up one place in the same order.
C25_RemoveFromQueue ==
    \A idx \in AnyIndex :
        LET o == remove_from_queue(eng, idx)
            q == eng.queue
        IN  IF 0 <= idx /\ idx < Len(q)
            THEN /\ o.status = "removed_from_queue"
                 /\ Len(o.eng.queue) = Len(q) - 1
                 /\ \A k \in 1..(Len(q) - 1) :
                       o.eng.queue[k] = IF k <= idx THEN q[k] ELSE q[k + 1]
                 /\ o.eng = [eng EXCEPT !.queue = o.eng.queue]
            ELSE /\ o.status = "error_invalid_queue_index"
                 /\ o.eng = eng

\* an entry was removed from a queue of three and two different songs are
\* left in it
C25_Witness ==
    /\ ret.op = "remove_from_queue"
    /\ ret.status = "removed_from_queue"
    /\ eng.queue = <<1, 2>>

\* ---- renaming ----

\* P was saved, Q may have been saved too, before the first request that is
\* followed
InitRename ==
    /\ \E songs \in SongLists(MaxLen), others \in SUBSET {"Q"} :
          LET pls == [n \in {Library, "P"} \cup others |->
                          IF n = Library THEN AllSongs
                          ELSE IF n = "P" THEN songs ELSE <<NumSongs>>]
          IN  /\ eng = Engine0(pls)
              /\ db = StoreOf(pls, {"P"} \cup others, Db0)
    /\ ret = Ret0
    /\ pc = Pc0
    /\ loc = Loc0
    /\ ghost = Ghost0

NextRename ==
    \/ \E fail \in BOOLEAN : Req_rename_playlist(fail)
    \/ Req_play_playlist

SpecRename == InitRename /\ [][NextRename]_vars

\* the songs the store holds for the playlist called `name`
StoredSongs(d, name) == load_playlist(d, select_playlist_id(d, name))

\* C26: rename_playlist(old, new) fails with protected when old is Library,
\* with not-found when old is missing and with already-exists when new is
\* taken (new = old included), and then changes nothing; when it succeeds
\* the song list that was under old is under new in memory and in storage,
\* old is in neither, every other playlist is as it was, and the bound name
\* becomes new when it was old and is unchanged otherwise.
C26_Rename ==
    \A old_name \in Names, new_name \in Names, fail \in BOOLEAN :
        LET o == rename_playlist(eng, db, old_name, new_name, fail)
        IN  IF old_name = Library
            THEN o.status = "error_protected" /\ o.eng = eng /\ o.db = db
            ELSE IF old_name \notin DOMAIN eng.playlists
            THEN o.status = "error_not_found" /\ o.eng = eng /\ o.db = db
            ELSE IF new_name \in DOMAIN eng.playlists
            THEN o.status = "error_already_exists" /\ o.eng = eng /\ o.db = db
            ELSE o.status = "playlist_renamed" =>
                 /\ DOMAIN o.eng.playlists = (DOMAIN eng.playlists \ {old_name}) \cup {new_name}
                 /\ o.eng.playlists[new_name] = eng.playlists[old_name]
                 /\ \A n \in DOMAIN eng.playlists \ {old_name} :
                       o.eng.playlists[n] = eng.playlists[n]
                 /\ ~unique_violation(o.db, old_name)
                 /\ StoredSongs(o.db, new_name) = StoredSongs(db, old_name)
                 /\ o.eng.current_playlist_name =
                       IF eng.current_playlist_name = old_name
                       THEN new_name ELSE eng.current_playlist_name
                 /\ o.eng = [eng EXCEPT !.playlists = o.eng.playlists,
                                        !.current_playlist_name = o.eng.current_playlist_name]

\* the playlist that is bound was renamed from P to Q and its two songs are
\* under the new name
C26_Witness ==
    /\ ret.op = "rename_playlist"
    /\ ret.status = "playlist_renamed"
    /\ eng.current_playlist_name = "Q"
    /\ "P" \notin DOMAIN eng.playlists
    /\ Len(eng.playlists["Q"]) = MaxLen

\* ---- duplicating ----
(* A playlist in the map is a Python list object, and append / pop / insert  *)
(* change the object in place.  Here the engine record carries `list_id`,   *)
(* the identity of the list object under each name: an edit through one    *)
(* name is seen under every name that holds the same object.               *)

\* f"{playlist_name} (Copy)" and f"{playlist_name} (Copy {i})"
CopyName(playlist_name, i) ==
    IF i = 1 THEN playlist_name \o " (Copy)"
    ELSE playlist_name \o " (Copy " \o ToString(i) \o ")"

RECURSIVE FirstCopyName(_, _, _)
\* while new_name in self.playlists: i += 1; new_name = ...
FirstCopyName(e, playlist_name, i) ==
    IF CopyName(playlist_name, i) \in DOMAIN e.playlists
    THEN FirstCopyName(e, playlist_name, i + 1)
    ELSE CopyName(playlist_name, i)

\* the identity of a list object that is made now
NewList(e) ==
    CHOOSE i \in 1..(Cardinality(DOMAIN e.list_id) + 1) :
        \A n \in DOMAIN e.list_id : e.list_id[n] # i

\* a duplicate that hands the original's list object to create_playlist
duplicate_playlist_alias(e, d, playlist_name, new_name, fail) ==
    IF playlist_name \notin DOMAIN e.playlists
    THEN OutDb(e, d, "error_not_found", "")
    ELSE LET name == IF new_name = NoName
                     THEN FirstCopyName(e, playlist_name, 1) ELSE new_name
         IN  IF name \in DOMAIN e.playlists
             THEN OutDb(e, d, "error_already_exists", "")
             ELSE LET songs == e.playlists[playlist_name]
                      o == create_playlist(e, d, name, songs, fail)
                  IN  IF o.status = "playlist_created"
                      THEN [o EXCEPT !.eng.list_id =
                               PutKey(@, name, IF songs # << >>
                                               THEN e.list_id[playlist_name]
                                               ELSE NewList(e))]
                      ELSE o

\* duplicate_playlist: the name is searched when none is given, the song list
\* is copied into a new list object and create_playlist stores it
duplicate_playlist(e, d, playlist_name, new_name, fail) ==
    IF playlist_name \notin DOMAIN e.playlists
    THEN OutDb(e, d, "error_not_found", "")
    ELSE LET name == IF new_name = NoName
                     THEN FirstCopyName(e, playlist_name, 1) ELSE new_name
         IN  IF name \in DOMAIN e.playlists
             THEN OutDb(e, d, "error_already_exists", "")
             ELSE LET songs == e.playlists[playlist_name]
                      o == create_playlist(e, d, name, songs, fail)
                  IN  IF o.status = "playlist_created"
                      THEN [o EXCEPT !.eng.list_id = PutKey(@, name, NewList(e))]
                      ELSE o

\* the outcome of a handler that edited the list under `name` in place
InPlace(e, name, o) ==
    [o EXCEPT !.eng.playlists =
        [n \in DOMAIN @ |->
            IF name \in DOMAIN e.list_id /\ n \in DOMAIN e.list_id
               /\ e.list_id[n] = e.list_id[name]
            THEN @[name] ELSE @[n]]]

\* the engine with each list in the map an object of its own
WithLists(e) ==
    LET names == DOMAIN e.playlists
        order == CHOOSE f \in [names -> 1..Cardinality(names)] :
                     \A a, b \in names : a # b => f[a] # f[b]
    IN  [k \in DOMAIN e \cup {"list_id"} |->
            IF k = "list_id" THEN order ELSE e[k]]

CopiesOfP == {CopyName("P", 1), CopyName("P", 2)}

\* P and some of its copies were saved before the first request that is
\* followed
InitDup ==
    /\ \E songs \in SongLists(MaxLen), others \in SUBSET CopiesOfP :
          LET pls == [n \in {Library, "P"} \cup others |->
                          IF n = Library THEN AllSongs
                          ELSE IF n = "P" THEN songs ELSE <<NumSongs>>]
          IN  /\ eng = WithLists(Engine0(pls))
              /\ db = StoreOf(pls, {"P"} \cup others, Db0)
    /\ ret = Ret0
    /\ pc = Pc0
    /\ loc = Loc0
    /\ ghost = Ghost0

Dup_duplicate_playlist(fail) ==
    /\ Cardinality(DOMAIN eng.playlists) < 2 + MaxCopies
    /\ \E playlist_name \in Names, new_name \in {NoName, "P"} :
          ReturnsDb("duplicate_playlist", <<playlist_name, new_name>>,
                    duplicate_playlist(eng, db, playlist_name, new_name, fail))
    /\ KeepThreads

Dup_add_to_playlist ==
    /\ \E name \in DOMAIN eng.playlists, song \in Songs :
          /\ Len(eng.playlists[name]) < MaxLen
          /\ ReturnsDb("add_to_playlist", <<name, song>>,
                       InPlace(eng, name, add_to_playlist(eng, db, name, song, FALSE)))
    /\ KeepThreads

Dup_remove_from_playlist ==
    /\ \E name \in DOMAIN eng.playlists, idx \in 0..MaxLen :
          ReturnsDb("remove_from_playlist", <<name, idx>>,
                    InPlace(eng, name, remove_from_playlist(eng, db, name, idx, FALSE)))
    /\ KeepThreads

Dup_reorder_playlist ==
    /\ \E name \in DOMAIN eng.playlists, from_index \in 0..MaxLen, to_index \in 0..MaxLen :
          ReturnsDb("reorder_playlist", <<name, from_index, to_index>>,
                    InPlace(eng, name,
                            reorder_playlist(eng, db, name, from_index, to_index, FALSE)))
    /\ KeepThreads

NextDup ==
    \/ \E fail \in BOOLEAN : Dup_duplicate_playlist(fail)
    \/ Dup_add_to_playlist
    \/ Dup_remove_from_playlist
    \/ Dup_reorder_playlist

SpecDup == InitDup /\ [][NextDup]_vars

\* the playlists that are not under `name` are the same in e and e1
OthersSame(e, e1, name) ==
    \A n \in DOMAIN e.playlists \ {name} :
        n \in DOMAIN e1.playlists /\ e1.playlists[n] = e.playlists[n]

\* C27: duplicate_playlist(name) without a new name on a playlist of the map
\* never answers already-exists; when it creates, the new name is the first
\* of "<name> (Copy)", "<name> (Copy 2)", "<name> (Copy 3)", ... that was not
\* in the map, the new playlist has the song sequence of the original and
\* nothing else changes in the map; and whenever playlists exist, an add,
\* remove or reorder on one of them changes the list under no other name, so
\* an edit of a copy never shows in its original nor the other way round.
C27_DuplicateIndependent ==
    /\ \A playlist_name \in DOMAIN eng.playlists, fail \in BOOLEAN :
          LET o == duplicate_playlist(eng, db, playlist_name, NoName, fail)
          IN  /\ o.status # "error_already_exists"
              /\ o.status = "playlist_created" =>
                   \E i \in 1..(MaxCopies + 2) :
                      LET name == CopyName(playlist_name, i)
                      IN  /\ name \notin DOMAIN eng.playlists
                          /\ \A j \in 1..(i - 1) :
                                CopyName(playlist_name, j) \in DOMAIN eng.playlists
                          /\ DOMAIN o.eng.playlists = DOMAIN eng.playlists \cup {name}
                          /\ o.eng.playlists[name] = eng.playlists[playlist_name]
                          /\ OthersSame(eng, o.eng, name)
    /\ \A name \in DOMAIN eng.playlists :
          /\ \A song \in Songs :
                OthersSame(eng, InPlace(eng, name,
                    add_to_playlist(eng, db, name, song, FALSE)).eng, name)
          /\ \A idx \in 0..MaxLen :
                OthersSame(eng, InPlace(eng, name,
                    remove_from_playlist(eng, db, name, idx, FALSE)).eng, name)
          /\ \A from_index \in 0..MaxLen, to_index \in 0..MaxLen :
                OthersSame(eng, InPlace(eng, name,
                    reorder_playlist(eng, db, name, from_index, to_index, FALSE)).eng, name)

\* Library was duplicated under the first free name and a song was removed
\* from the copy: Library still has all its songs
C27_Witness ==
    /\ ret.op = "remove_from_playlist"
    /\ ret.status = "song_removed_from_playlist"
    /\ CopyName(Library, 1) \in DOMAIN eng.playlists
    /\ eng.playlists[CopyName(Library, 1)] = <<NumSongs>>
    /\ eng.playlists[Library] = AllSongs

\* ---- the end of a track ----

\* C28 as stated: when the track ends with repeat=one, the handler replays
\* the current song and leaves the queue, the bound playlist and
\* playlist_index unchanged, also when the queue is not empty.
C28_RepeatOneReplays ==
    [][(ret'.op = "_handle_song_end" /\ eng.repeat = "one")
        => /\ Started(eng', eng.current_song)
           /\ eng'.queue = eng.queue
           /\ SameBinding(eng, eng')]_vars

\* C28 amended: when the track ends with repeat=one and a current song, the
\* handler leaves the queue, the bound playlist and playlist_index unchanged,
\* also when the queue is not empty; it replays the current song when the
\* song's file exists, and otherwise nothing is played and the playback state
\* stays as it was.
C28_RepeatOneReplaysFile ==
    [][(ret'.op = "_handle_song_end" /\ eng.repeat = "one" /\ eng.current_song # None)
        => /\ eng'.queue = eng.queue
           /\ SameBinding(eng, eng')
           /\ ret'.status \in {"playing", "error_file_not_found"}
           /\ ret'.status = "playing" => Started(eng', eng.current_song)
           /\ ret'.status = "error_file_not_found" => SamePlayback(eng, eng')]_vars

\* the handler has just replayed the current song with a song waiting in the
\* queue and a playlist bound
C28_Witness ==
    /\ ret.op = "_handle_song_end" /\ ret.branch = "one" /\ ret.status = "playing"
    /\ eng.repeat = "one"
    /\ eng.queue # << >>
    /\ Bound(eng)
    /\ eng.is_playing /\ eng.current_song # None

\* C29: for repeat off and repeat all the end-of-track handler is the same
\* transition as next(): from a state in which the track has ended,
\* _handle_song_end and next() leave the same current song, is_playing,
\* queue, bound name, bound list and playlist_index.
C29_SongEndIsNext ==
    (/\ eng.repeat \in {"off", "all"}
     /\ eng.current_song # None /\ eng.is_playing
     /\ eng.player.state = "Ended")
    => \A fs \in FileSets :
          LET h == handle_song_end(eng, fs).eng
              n == next(eng, fs).eng
          IN  /\ h.current_song = n.current_song
              /\ h.is_playing = n.is_playing
              /\ h.queue = n.queue
              /\ SameBinding(h, n)

\* C30: when reorder_playlist(name, from, to) is applied to the bound
\* playlist while playlist_index is inside the bound copy, the index follows
\* its song: the entry of the bound copy at the new playlist_index is the
\* entry that was at the old playlist_index, for every from, to and index.
C30_ReorderTracksIndex ==
    \A name \in DOMAIN eng.playlists \ {Library} :
        (/\ eng.current_playlist_name = name
         /\ ~OutOfRange(eng.current_playlist, eng.playlist_index))
        => \A from \in 0..(Len(eng.playlists[name]) - 1),
              to \in 0..(Len(eng.playlists[name]) - 1), fail \in BOOLEAN :
                LET o == reorder_playlist(eng, db, name, from, to, fail)
                IN  /\ ~OutOfRange(o.eng.current_playlist, o.eng.playlist_index)
                    /\ At(o.eng.current_playlist, o.eng.playlist_index)
                         = At(eng.current_playlist, eng.playlist_index)

\* a reorder of the bound playlist of three different songs has just changed
\* playlist_index, and the song that plays is the entry at the new index
C30_Witness ==
    /\ ret.op = "reorder_playlist" /\ ret.status = "playlist_reordered"
    /\ ret.branch = "bound"
    /\ eng.current_playlist_name = "P"
    /\ Cardinality(Range(eng.current_playlist)) = 3
    /\ ret.at # eng.playlist_index
    /\ eng.current_song = At(eng.current_playlist, eng.playlist_index)

\* ---- removing from the bound playlist ----

\* songs are removed from P while it plays
NextRemoveBound ==
    \/ Req_remove_from_playlist(FALSE)
    \/ Req_play_playlist
    \/ Req_next

SpecRemoveBound == InitMove /\ [][NextRemoveBound]_vars

\* the entry of the list at index i, None where the list has no such entry
EntryAt(list, i) == IF OutOfRange(list, i) \/ i < 0 THEN None ELSE At(list, i)

\* C31: when remove_from_playlist(name, i) is applied to the bound playlist
\* with i different from playlist_index, the entry of the bound copy at the
\* new playlist_index is the entry that was at the old playlist_index, and
\* the index is one less exactly when i was before it.
C31_RemoveTracksIndex ==
    \A name \in DOMAIN eng.playlists \ {Library} :
        eng.current_playlist_name = name
        => \A i \in 0..(Len(eng.playlists[name]) - 1) :
              i # eng.playlist_index
              => LET o == remove_from_playlist(eng, db, name, i, FALSE)
                 IN  /\ o.status = "song_removed_from_playlist"
                     /\ EntryAt(o.eng.current_playlist, o.eng.playlist_index)
                          = EntryAt(eng.current_playlist, eng.playlist_index)
                     /\ o.eng.playlist_index =
                          IF i < eng.playlist_index
                          THEN eng.playlist_index - 1 ELSE eng.playlist_index

\* an entry before the current one has just been removed from the bound
\* playlist: the index went down and the song that plays is at the new index
C31_Witness ==
    /\ ret.op = "remove_from_playlist" /\ ret.status = "song_removed_from_playlist"
    /\ ret.branch = "bound"
    /\ eng.current_playlist_name = "P"
    /\ eng.playlist_index = ret.at - 1
    /\ eng.current_song # None
    /\ EntryAt(eng.current_playlist, eng.playlist_index) = eng.current_song
    /\ Cardinality(Range(eng.current_playlist)) = 2

----------------------------------------------------------------------------
(* The music table of yt_db.  A file location is a path: absolute or not,  *)
(* and a sequence of components, among them "." and "..".  In the          *)
(* specification below the field `music` of db is the table (rows in id    *)
(* order) and `music_seq` the AUTOINCREMENT counter.                       *)

PathParts == {".", "..", "a"}

RawPaths ==
    [abs : BOOLEAN, parts : UNION {[1..k -> PathParts] : k \in 0..MaxPathLen}]

\* os.getcwd()
Cwd == <<"m">>

RECURSIVE normpath(_, _)
\* os.path.normpath on the components of an absolute path: "." is dropped,
\* ".." drops the component before it and is dropped itself at the root
normpath(done, rest) ==
    IF rest = << >> THEN done
    ELSE IF Head(rest) = "." THEN normpath(done, Tail(rest))
    ELSE IF Head(rest) = ".."
    THEN normpath(IF done = << >> THEN done ELSE SubSeq(done, 1, Len(done) - 1),
                  Tail(rest))
    ELSE normpath(Append(done, Head(rest)), Tail(rest))

\* os.path.abspath: normpath(join(os.getcwd(), path))
abspath(path) ==
    [abs |-> TRUE,
     parts |-> normpath(<< >>, IF path.abs THEN path.parts ELSE Cwd \o path.parts)]

\* os.path.basename
basename(path) == IF path.parts = << >> THEN "" ELSE path.parts[Len(path.parts)]

MusicDb0 ==
    [playlists |-> << >>, playlist_songs |-> << >>, seq |-> 0,
     music |-> << >>, music_seq |-> 0]

\* SELECT id FROM music WHERE file_location = ? LIMIT 1
select_music_id(d, file_location) ==
    IF \E i \in DOMAIN d.music : d.music[i].file_location = file_location
    THEN d.music[CHOOSE i \in DOMAIN d.music :
                    /\ d.music[i].file_location = file_location
                    /\ \A j \in DOMAIN d.music :
                          d.music[j].file_location = file_location => i <= j].id
    ELSE None

\* an add_music_entry that looks the location up as it was given
add_music_entry_raw(d, file_location, name) ==
    LET existing == select_music_id(d, file_location)
        location == abspath(file_location)
    IN  IF existing # None
        THEN [db |-> d, rowid |-> existing, branch |-> "existing"]
        ELSE [db |-> [d EXCEPT
                        !.music = Append(@, [id |-> d.music_seq + 1,
                                             name |-> IF name # "" THEN name
                                                      ELSE basename(location),
                                             file_location |-> location]),
                        !.music_seq = @ + 1],
              rowid |-> d.music_seq + 1, branch |-> "inserted"]

\* add_music_entry: the location is made absolute, an existing row of that
\* location gives its id, otherwise a row is inserted and its id returned
add_music_entry(d, file_location, name) ==
    LET location == abspath(file_location)
        existing == select_music_id(d, location)
    IN  IF existing # None
        THEN [db |-> d, rowid |-> existing, branch |-> "existing"]
        ELSE [db |-> [d EXCEPT
                        !.music = Append(@, [id |-> d.music_seq + 1,
                                             name |-> IF name # "" THEN name
                                                      ELSE basename(location),
                                             file_location |-> location]),
                        !.music_seq = @ + 1],
              rowid |-> d.music_seq + 1, branch |-> "inserted"]

\* DELETE FROM music WHERE id NOT IN (SELECT MIN(id) FROM music GROUP BY name)
remove_duplicates(d) ==
    [d EXCEPT !.music =
        SelectSeq(@, LAMBDA r : \A j \in DOMAIN d.music :
                                   d.music[j].name = r.name => r.id <= d.music[j].id)]

\* DELETE FROM music WHERE name LIKE '%name%'; the names here are single
\* letters, so one contains the other only when they are equal
remove_perticular_entry(d, name) ==
    [d EXCEPT !.music = SelectSeq(@, LAMBDA r : r.name # name)]

EntryNames == {"", "a"}

Call_add_music_entry ==
    /\ \E file_location \in RawPaths, name \in EntryNames :
          LET o == add_music_entry(db, file_location, name)
          IN  /\ o.db.music_seq <= MaxMusicId
              /\ db' = o.db
              /\ ret' = Ret("add_music_entry", o.rowid, "ok", o.branch)
    /\ UNCHANGED eng /\ KeepThreads

Call_remove_duplicates ==
    /\ db' = remove_duplicates(db)
    /\ ret' = Ret("remove_duplicates", Len(db.music) - Len(db'.music), "ok", "")
    /\ UNCHANGED eng /\ KeepThreads

Call_remove_perticular_entry ==
    /\ \E name \in EntryNames \ {""} :
          db' = remove_perticular_entry(db, name)
    /\ ret' = Ret("remove_perticular_entry", Len(db.music) - Len(db'.music), "ok", "")
    /\ UNCHANGED eng /\ KeepThreads

\* an empty music table
InitMusic ==
    /\ eng = Engine0([n \in {Library} |-> << >>])
    /\ db = MusicDb0
    /\ ret = Ret0
    /\ pc = Pc0
    /\ loc = Loc0
    /\ ghost = Ghost0

NextMusic ==
    \/ Call_add_music_entry
    \/ Call_remove_duplicates
    \/ Call_remove_perticular_entry

SpecMusic == InitMusic /\ [][NextMusic]_vars

\* the rows of the music table that hold the location
RowsOf(d, location) == {i \in DOMAIN d.music : d.music[i].file_location = location}

\* C32: song registration is idempotent per file: when add_music_entry is
\* called twice with locations that have the same absolute path, the music
\* table holds exactly one row of that path afterwards and the second call
\* returns the id the first call returned.
C32_RegisterIdempotent ==
    \A p \in RawPaths, n1 \in EntryNames :
        LET o1 == add_music_entry(db, p, n1)
            location == abspath(p)
        IN  \A q \in RawPaths :
                abspath(q) = location
                => \A n2 \in EntryNames :
                      LET o2 == add_music_entry(o1.db, q, n2)
                      IN  /\ Cardinality(RowsOf(o2.db, location)) = 1
                          /\ o2.rowid = o1.rowid
                          /\ o2.db = o1.db

\* a file was registered again through another spelling of its path: the
\* call found the row and the table holds two files
C32_Witness ==
    /\ ret.op = "add_music_entry" /\ ret.branch = "existing"
    /\ Len(db.music) = 2
    /\ \E i \in DOMAIN db.music :
          /\ db.music[i].id = ret.at
          /\ i = 1
          /\ db.music[i].file_location = [abs |-> TRUE, parts |-> <<"m", "a">>]

----------------------------------------------------------------------------
(* The monitor alone.  A song plays; no request arrives.  The field `files` *)
(* of db is the set of songs whose file is on the disk (files may have     *)
(* been deleted since the song was started).                               *)

\* the song of the bound playlist plays, songs wait in the queue
InitMonitor ==
    /\ \E name \in {Library, "P"}, q \in SongLists(MaxQueue), mode \in RepeatModes,
          fs \in SUBSET Songs :
          LET pls == [n \in {Library, "P"} |-> IF n = Library THEN AllSongs ELSE <<1>>]
              d == StoreOf(pls, {"P"}, Db0)
          IN  /\ eng = [play_playlist(Engine0(pls), Songs, name, << >>).eng
                           EXCEPT !.queue = q, !.repeat = mode]
              /\ db = [playlists |-> d.playlists, playlist_songs |-> d.playlist_songs,
                       seq |-> d.seq, files |-> fs]
    /\ ret = Ret0
    /\ pc = Pc0
    /\ loc = Loc0
    /\ ghost = Ghost0

\* one iteration of _monitor_loop that finds the track ended, on the disk
\* as it is
MonitorTickDisk ==
    /\ eng.running
    /\ eng.current_song # None /\ eng.is_playing
    /\ eng.player.state = "Ended"
    /\ Returns("_handle_song_end", << >>, handle_song_end(eng, db.files))
    /\ UNCHANGED db /\ KeepThreads

NextMonitor ==
    \/ SongEnds
    \/ MonitorTickDisk

\* the monitor thread is a daemon thread that is always scheduled again
SpecMonitor == InitMonitor /\ [][NextMonitor]_vars /\ WF_vars(MonitorTickDisk)

\* the device reports end-of-track while a song is loaded and marked playing
\* (and the history and the index have room for one more step)
EndOfTrack ==
    /\ eng.player.state = "Ended"
    /\ eng.current_song # None /\ eng.is_playing
    /\ Len(eng.history) < MaxHistory
    /\ eng.playlist_index < MaxIndex

\* C33: with a fair monitor and no request, whenever the device reports
\* end-of-track while a song is loaded and marked playing, eventually a song
\* is playing (the queue head, the next playlist entry or the same song) or
\* playback is stopped.
C33_MonitorHandles ==
    EndOfTrack ~> \/ Started(eng, eng.current_song) /\ eng.current_song # None
                  \/ ~eng.is_playing /\ eng.current_song = None

----------------------------------------------------------------------------
(* yt_db.remove_playlist_duplicates works on the store of the running      *)
(* engine, from outside the engine.                                        *)

RECURSIVE FirstOfEach(_, _)
\* the rows whose id is the lowest of their song_data (rows are in id order)
FirstOfEach(rows, seen) ==
    IF rows = << >> THEN << >>
    ELSE IF Head(rows).song_data \in seen THEN FirstOfEach(Tail(rows), seen)
    ELSE <<Head(rows)>> \o FirstOfEach(Tail(rows), seen \cup {Head(rows).song_data})

\* remove_playlist_duplicates: DELETE FROM playlist_songs WHERE playlist_id = ?
\* AND id NOT IN (SELECT MIN(id) ... GROUP BY song_data); nothing else is
\* written
remove_playlist_duplicates(d, playlist_name) ==
    LET pid == select_playlist_id(d, playlist_name)
    IN  IF pid = None THEN d
        ELSE set_rows(d, pid, FirstOfEach(rows_of(d, pid), {}))

Call_remove_playlist_duplicates ==
    /\ \E playlist_name \in Names :
          /\ db' = remove_playlist_duplicates(db, playlist_name)
          /\ ret' = Ret("remove_playlist_duplicates", eng.playlist_index,
                        IF select_playlist_id(db, playlist_name) = None
                        THEN "not_found" ELSE "removed", "")
    /\ UNCHANGED eng /\ KeepThreads

NextDedup ==
    \/ Call_remove_playlist_duplicates
    \/ Req_remove_from_playlist(FALSE)

SpecDedup == InitMove /\ [][NextDedup]_vars

\* every saved playlist is stored as its in-memory list at positions 0..n-1
StoreInSync(e, d) ==
    \A name \in DOMAIN e.playlists \ {Library} :
        Mirrors(d, select_playlist_id(d, name), e.playlists[name])

\* C34: remove_playlist_duplicates keeps the storage invariant: when the
\* stored rows of every playlist are its in-memory list at the dense
\* positions 0..n-1 before the call, they are so after it.
C34_DedupKeepsStore ==
    [][(ret'.op = "remove_playlist_duplicates" /\ StoreInSync(eng, db))
        => StoreInSync(eng', db')]_vars

----------------------------------------------------------------------------
(* Invariants of the engine under requests executed one at a time *)

\* C35: whenever the bound song list is not empty, playlist_index is an
\* index of it: 0 <= playlist_index < len(current_playlist).
C35_IndexInRange ==
    eng.current_playlist # << >>
    => 0 <= eng.playlist_index /\ eng.playlist_index < Len(eng.current_playlist)

\* the bound playlist is shuffled and edited
NextShuffleEdit ==
    \/ Req_set_shuffle
    \/ Req_play_playlist
    \/ Req_remove_from_playlist(FALSE)
    \/ Req_add_to_playlist(FALSE)

SpecShuffleEdit == InitMove /\ [][NextShuffleEdit]_vars

\* C36: whenever a playlist name is bound, the bound copy has the length of
\* the stored playlist of that name and holds every song as often as it:
\* it is a permutation of the stored playlist.
C36_BoundIsPermutation ==
    eng.current_playlist_name # NoName
    => /\ eng.current_playlist_name \in DOMAIN eng.playlists
       /\ LET stored == eng.playlists[eng.current_playlist_name]
          IN  /\ Len(eng.current_playlist) = Len(stored)
              /\ \A x \in Range(stored) \cup Range(eng.current_playlist) :
                    Count(eng.current_playlist, x) = Count(stored, x)

----------------------------------------------------------------------------
(* Walking back through the history.  Songs were played one after another  *)
(* without a playlist (from the queue or by name); the last one plays.     *)

\* the histories of up to MaxMove different songs
Histories == {h \in MoveLists : h # << >> /\ Cardinality(Range(h)) = Len(h)}

InitHistory ==
    /\ \E h \in Histories :
          eng = [Engine0([n \in {Library} |-> AllSongs]) EXCEPT
                    !.history = h,
                    !.current_song = h[Len(h)],
                    !.is_playing = TRUE,
                    !.player = [state |-> "Playing", volume |-> DEFAULT_VOLUME]]
    /\ db = Db0
    /\ ret = Ret0
    /\ pc = Pc0
    /\ loc = Loc0
    /\ ghost = Ghost0

\* POST /previous; the files of all songs exist, or none
Hist_previous ==
    \E fs \in {MoveSongs, {}} :
        LET o == previous(eng, fs)
        IN  /\ eng' = o.eng
            /\ ret' = Ret("previous", eng.playlist_index, o.status, o.branch)
            /\ UNCHANGED db /\ KeepThreads

NextHistory ==
    \/ Hist_previous
    \/ Req_pause
    \/ Req_resume
    \/ Req_stop

SpecHistory == InitHistory /\ [][NextHistory]_vars

RECURSIVE Back(_, _)
\* the engine after k calls of previous() with every file on the disk
Back(e, k) == IF k = 0 THEN e ELSE previous(Back(e, k - 1), MoveSongs).eng

\* C37: with no playlist bound and a history of different songs whose newest
\* entry is the current song, successive previous() calls walk back through
\* the history: the k-th call plays the k-th older entry, for every k up to
\* the number of older entries.
C37_PreviousWalksBack ==
    (/\ eng.current_playlist = << >>
     /\ eng.history # << >>
     /\ Cardinality(Range(eng.history)) = Len(eng.history)
     /\ eng.current_song = eng.history[Len(eng.history)])
    => \A k \in 1..(Len(eng.history) - 1) :
          Started(Back(eng, k), eng.history[Len(eng.history) - k])

\* C38: a next(), previous() or play_playlist call that returns the
\* file-not-found error leaves the current song, the queue, the binding,
\* playlist_index and the history as they were before the call.
C38_FailedPlayChangesNothing ==
    [][(/\ ret'.op \in {"next", "previous", "play_playlist"}
        /\ ret'.status = "error_file_not_found")
        => /\ eng'.current_song = eng.current_song
           /\ eng'.queue = eng.queue
           /\ SameBinding(eng, eng')
           /\ eng'.history = eng.history]_vars

----------------------------------------------------------------------------
(* The playing flag and the current song.  Playlists are played, advanced, *)
(* stepped back, paused, resumed and stopped, songs are queued, the repeat *)
(* mode is set, and tracks come to their end and are handled.              *)

NextPlaying ==
    \/ Req_play_playlist
    \/ Req_next
    \/ Req_previous
    \/ Req_pause
    \/ Req_resume
    \/ Req_stop
    \/ Req_add_to_queue
    \/ Req_set_repeat
    \/ SongEnds
    \/ MonitorTick

SpecPlaying == Init /\ [][NextPlaying]_vars

\* C39: with operations executed one at a time, is_playing implies that a
\* current song is present, and current_song goes from a song to None only
\* in stop() (called as a request or by the end-of-track handler), which
\* leaves is_playing false
C39_PlayingHasSong ==
    /\ [](eng.is_playing => eng.current_song # None)
    /\ [][(eng.current_song # None /\ eng'.current_song = None)
            => /\ \/ ret'.op = "stop"
                  \/ ret'.op = "_handle_song_end" /\ ret'.branch \in {"end", "none"}
               /\ eng' = stop(eng).eng \/ ret'.op = "_handle_song_end"
               /\ ~eng'.is_playing]_vars

\* playback was stopped while a song was playing
C39_Witness ==
    /\ ret.op = "stop"
    /\ eng.history # << >>
    /\ eng.current_song = None
    /\ ~eng.is_playing

----------------------------------------------------------------------------
(* The queue under concurrent requests.  One request thread runs           *)
(* add_to_queue or clear_queue, another runs remove_from_queue; no lock is *)
(* taken, so the statements of remove_from_queue interleave with the other *)
(* thread's deque.append and deque.clear, each of which is one step.       *)

QueueThreads == {"add", "remove"}

\* the songs appended to the queue since remove_from_queue copied it
GhostQueue0 == [added |-> << >>]

Copied == pc["remove"] \in {"rq_pop", "rq_assign"}

InitQueueConc ==
    /\ \E q \in SongLists(MaxQueued) :
          eng = [Engine0([n \in {Library} |-> AllSongs]) EXCEPT !.queue = q]
    /\ db = Db0
    /\ ret = Ret0
    /\ pc = [t \in QueueThreads |-> "idle"]
    /\ loc = [t \in QueueThreads |-> [index |-> 0, queue_list |-> << >>]]
    /\ ghost = GhostQueue0

\* POST /queue/add: song_data = self._search_song(song_name);
\* if song_data: self.queue.append(song_data)
q_add ==
    \E song \in Songs \cup {None} :
        LET o == add_to_queue(eng, song)
        IN  /\ pc["add"] = "idle"
            /\ Len(eng.queue) < MaxQueued
            /\ eng' = o.eng
            /\ ret' = Ret("add_to_queue", Len(eng.queue), o.status, o.branch)
            /\ ghost' = IF Copied /\ o.status = "added_to_queue"
                        THEN [ghost EXCEPT !.added = Append(@, song)]
                        ELSE ghost
            /\ UNCHANGED <<db, pc, loc>>

\* POST /queue/clear: self.queue.clear()
q_clear ==
    /\ pc["add"] = "idle"
    /\ eng' = clear_queue(eng).eng
    /\ ret' = Ret("clear_queue", Len(eng.queue), "queue_cleared", "")
    /\ ghost' = GhostQueue0
    /\ UNCHANGED <<db, pc, loc>>

\* remove_from_queue(index): if 0 <= index < len(self.queue)
rq_check ==
    \E idx \in AnyIndex :
        /\ pc["remove"] = "idle"
        /\ IF 0 <= idx /\ idx < Len(eng.queue)
           THEN /\ Goto("remove", "rq_copy")
                /\ loc' = [loc EXCEPT !["remove"].index = idx]
                /\ UNCHANGED ret
           ELSE /\ ret' = Ret("remove_from_queue", idx, "error_invalid_queue_index", "")
                /\ UNCHANGED <<pc, loc>>
        /\ UNCHANGED <<eng, db, ghost>>

\* queue_list = list(self.queue)
rq_copy ==
    /\ pc["remove"] = "rq_copy"
    /\ loc' = [loc EXCEPT !["remove"].queue_list = eng.queue]
    /\ Goto("remove", "rq_pop")
    /\ ghost' = GhostQueue0
    /\ UNCHANGED <<eng, db, ret>>

\* removed = queue_list.pop(index): an index outside the copy raises
\* IndexError, which the handler's except turns into an error answer
rq_pop ==
    LET l == loc["remove"]
    IN  /\ pc["remove"] = "rq_pop"
        /\ IF OutOfRange(l.queue_list, l.index)
           THEN /\ Goto("remove", "idle")
                /\ ret' = Ret("remove_from_queue", l.index, "error", "IndexError")
                /\ loc' = [loc EXCEPT !["remove"] = [index |-> 0, queue_list |-> << >>]]
                /\ ghost' = GhostQueue0
           ELSE /\ Goto("remove", "rq_assign")
                /\ loc' = [loc EXCEPT !["remove"].queue_list = RemoveAt(@, l.index + 1)]
                /\ UNCHANGED <<ret, ghost>>
        /\ UNCHANGED <<eng, db>>

\* self.queue = deque(queue_list); return {'status': 'removed_from_queue'}
rq_assign ==
    /\ pc["remove"] = "rq_assign"
    /\ eng' = [eng EXCEPT !.queue = loc["remove"].queue_list]
    /\ ret' = Ret("remove_from_queue", loc["remove"].index, "removed_from_queue", "")
    /\ Goto("remove", "idle")
    /\ loc' = [loc EXCEPT !["remove"] = [index |-> 0, queue_list |-> << >>]]
    /\ ghost' = GhostQueue0
    /\ UNCHANGED db

NextQueueConc ==
    \/ q_add
    \/ q_clear
    \/ rq_check
    \/ rq_copy
    \/ rq_pop
    \/ rq_assign

SpecQueueConc == InitQueueConc /\ [][NextQueueConc]_vars

\* C40: under concurrent requests no enqueued song is lost: when
\* remove_from_queue completes, the queue holds every song that a successful
\* add_to_queue appended while the removal ran (and that clear_queue did not
\* clear), besides what the removal left of the queue it found
C40_NoEnqueuedSongLost ==
    [][(pc["remove"] = "rq_assign" /\ pc'["remove"] = "idle")
        => \A x \in Songs :
              Count(eng'.queue, x) >=
                  Count(loc["remove"].queue_list, x) + Count(ghost.added, x)]_vars

====
